---- MODULE Spec2Model ----
(***************************************************************************)
(* MetaDesk: session connection and state synchronisation.                 *)
(*                                                                         *)
(* Authority side: one room (MetaDesk extends Room<OfficeState>) with its  *)
(* admission pipeline onReserve -> onAuth -> onJoin / onLeave and the      *)
(* append-chat command.                                                    *)
(* Client side: the Network service (connection state machine, retry and   *)
(* reconnection, outbound commands).                                       *)
(***************************************************************************)
EXTENDS Integers, Sequences, FiniteSets, TLC

(***************************************************************************)
(* Program constants                                                       *)
(***************************************************************************)
\* MetaDesk.maxClients
maxClients == 16

\* ChatMessageUpdateCommand: "a maximum of 100 chat messages"
MaxChatMessages == 100

\* Network.maxRetries
maxRetries == 10

(***************************************************************************)
(* Bounds of the model                                                     *)
(***************************************************************************)
\* session identifiers the authority hands out, one per connection attempt
MaxSessions == 17
\* connections that may close in the admission model
MaxLeaves == 1
\* join attempts that may be in progress at the same time
MaxPending == 2
\* session identifiers used in the chat model
ChatSessions == 2
\* append-chat messages sent in the chat model
MaxAppends == 103
\* slots for the client's concurrent call chains and timers
MaxTasks == 3
\* joins of the client that may succeed
MaxConns == 3
\* events of the client's environment in the connection model: channel
\* closes, failed attempts and join calls of the caller, taken together
MaxEvents == 3
\* failed attempts of the client in the retry model
MaxRetryFailures == 12
\* client messages the room handles in the command model
MaxMessages == 2
\* rooms the authority process creates
MaxRooms == 2
\* reserved candidates the random generator may repeat per identifier
MaxCollisions == 1
\* participants with a media manager
MaxPeers == 2
\* media calls made
MaxCalls == 3
\* presence events delivered to the media managers
MaxPresenceEvents == 3
\* chat messages the client sends in the model of the awaits
MaxChatSends == 2
\* 'error' events the media layer emits
MaxMediaErrors == 2
\* session identifiers used in the authentication model
MaxAuthSessions == 3

Sessions == 1..MaxSessions

\* values of options.password in a join request; NoPassword is null
NoPassword == "null"
JoinPasswords == {NoPassword, "", "secret", "wrong"}

\* values of options.password when a room is created
CreatePasswords == {NoPassword, "", "secret"}

\* identifiers of custom rooms the caller may join by id
CustomRoomIds == {"X", "Y"}

VARIABLES
  \* ---- authority (one room) ----
  password,       \* MetaDesk.password: NoPassword or the hashed secret
  players,        \* OfficeState.players: session id -> Player
  chatMessages,   \* OfficeState.chatMessages: sequence of ChatMessage
  clients,        \* Room.clients: session ids of the attached connections
  seat,           \* per session id: progress of its admission
  joinOptions,    \* per session id: options.password of its join request
  nextSessionId,  \* next session identifier the authority assigns
  lastError,      \* outcome reported to the last rejected join attempt
  now,            \* the authority's clock, new Date().getTime()
  \* ---- client (one Network object) ----
  room,           \* Network.room: 0 (undefined) or the connection it holds
  ready,          \* Network.ready
  connecting,     \* Network.connecting
  disconnecting,  \* Network.disconnecting
  reconnectTimer, \* Network.reconnectTimer: 0 or the pending timer
  lastRoomType,   \* Network.lastRoomType
  lastRoomData,   \* Network.lastRoomData
  conns,          \* per session id: the client's Room object of that join
  tasks,          \* the client's asynchronous call chains and timers
  lobbyJoined,    \* store: setLobbyJoined(true) was dispatched
  callerError,    \* a join call of the caller was rejected with an error
  lastCommand,    \* the last command submitted by the caller, and its result
  failures,       \* failed join attempts, state time-outs and room errors so far
  closes,         \* room channels closed so far
  callerJoins,    \* join calls made by the caller so far
  \* ---- authority: shared objects of the room and its message handlers ----
  computers,      \* OfficeState.computers: key -> Computer.connectedUser
  whiteboards,    \* OfficeState.whiteboards: key -> Whiteboard.connectedUser
  lastMessage,    \* the client message the room handled last
  handled,        \* client messages handled so far
  \* ---- authority process: rooms and collaboration-surface identifiers ----
  whiteboardRoomIds, \* the module-level Set of reserved identifiers
  rooms,          \* per room of the process: its life cycle and its boards
  collisions,     \* candidates getRoomId drew that were already reserved
  \* ---- media: one WebRTC object per participant ----
  mySessionId,    \* per participant: its session identifier in the room
  userId,         \* per participant: constructor argument of its WebRTC
  myStream,       \* per participant: WebRTC.myStream exists
  peers,          \* per participant: WebRTC.peers, address -> call
  onCalledPeers,  \* per participant: WebRTC.onCalledPeers, address -> call
  calls,          \* the media calls made so far
  presenceEvents, \* presence events delivered to the media managers so far
  videoEnabled,   \* per participant: enabled flag of the local video track
  lastMedia,      \* the handler of a media manager that ran last
  mediaErrors,    \* 'error' events the media layer emitted so far
  \* ---- client: the awaits of one joinOrCreatePublic call ----
  joinPc,         \* the statement the call is at
  transport,      \* the room transport answers the handshake, or never does
  stateSync,      \* the first room state arrives, or never does
  firestore,      \* the persistence service answers, fails, or never answers
  currentUser,    \* getCurrentUser() returns a user
  chatSends,      \* ADD_CHAT_MESSAGE messages addChatMessage sent
  chatSaves,      \* saveChatToFirestore calls still awaiting the service
  \* ---- client: the listeners on the room state ----
  sessionId,      \* Network.mySessionId: 0, or the session id initialize set
  setups,         \* the runs of setupStateListeners so far
  seenName,       \* per participant: the name last delivered to its listener
  joinedEvents,   \* per participant: PLAYER_JOINED events raised
  updatedEvents   \* per participant: PLAYER_UPDATED 'name' events raised

serverVars == <<password, players, chatMessages, clients, seat, joinOptions,
                nextSessionId, lastError, now>>

clientVars == <<room, ready, connecting, disconnecting, reconnectTimer,
                lastRoomType, lastRoomData, conns, tasks, lobbyJoined,
                callerError, lastCommand, failures, closes, callerJoins>>

objectVars == <<computers, whiteboards, lastMessage, handled>>

processVars == <<whiteboardRoomIds, rooms, collisions>>

mediaVars == <<mySessionId, userId, myStream, peers, onCalledPeers, calls,
               presenceEvents, videoEnabled, lastMedia, mediaErrors>>

awaitVars == <<joinPc, transport, stateSync, firestore, currentUser, chatSends,
               chatSaves>>

listenerVars == <<sessionId, setups, seenName, joinedEvents, updatedEvents>>

vars == <<serverVars, clientVars, objectVars, processVars, mediaVars,
          awaitVars, listenerVars>>

(***************************************************************************)
(* OfficeState schema                                                      *)
(***************************************************************************)
\* new Player(): the spawn point is random in 700..899 x 450..549; the
\* model fixes it at the low end of both ranges
Player ==
  [name |-> "", x |-> 700, y |-> 450, anim |-> "adam_idle_down",
   readyToConnect |-> FALSE, videoConnected |-> FALSE]

\* new ChatMessage() with author, content and createdAt assigned
ChatMessage(author, content, createdAt) ==
  [author |-> author, content |-> content, createdAt |-> createdAt]

\* MapSchema.set(key, value)
MapSet(map, key, value) ==
  [k \in (DOMAIN map) \cup {key} |-> IF k = key THEN value ELSE map[k]]

\* MapSchema.delete(key)
MapDelete(map, key) ==
  [k \in (DOMAIN map) \ {key} |-> map[k]]

\* (mutant of Shift: pop() instead of shift(), the newest element is dropped)
ShiftDropsLast(arr) == SubSeq(arr, 1, Len(arr) - 1)

\* ArraySchema.shift(): drop the first element
Shift(arr) == Tail(arr)

(***************************************************************************)
(* Admission pipeline of the room                                          *)
(***************************************************************************)
Closed == {s \in Sessions : seat[s] = "closed"}
Pending == {s \in Sessions : seat[s] \in {"reserved", "auth"}}

\* MetaDesk.onReserve: the capacity test made on a seat request
HasFreeSeat == Cardinality(clients) < maxClients

\* bcrypt.hash(password, salt) and bcrypt.compare(given, hash)
Hash(pw) == "$2b$10$" \o pw
Compare(given, hash) == Hash(given) = hash

\* MetaDesk.onCreate: "if (password) this.password = await bcrypt.hash(...)";
\* null and the empty string are falsy
StoredPassword(optionsPassword) ==
  IF optionsPassword \in {NoPassword, ""} THEN NoPassword
  ELSE Hash(optionsPassword)

\* (mutant of AuthResult: a request without password is let through)
AuthResultGrantsMissing(roomPassword, given) ==
  IF roomPassword # NoPassword
    THEN IF given \in {NoPassword, ""} THEN TRUE
         ELSE Compare(given, roomPassword)
    ELSE TRUE

\* MetaDesk.onAuth: result of the authentication step
AuthResult(roomPassword, given) ==
  IF roomPassword # NoPassword
    THEN IF given \in {NoPassword, ""} THEN FALSE
         ELSE Compare(given, roomPassword)
    ELSE TRUE

\* A seat request for a new connection attempt; the authority assigns the
\* next session identifier. Rejected with "Room is full" at capacity.
onReserve(pw) ==
  LET s == nextSessionId IN
  /\ s \in Sessions
  /\ nextSessionId' = s + 1
  /\ IF HasFreeSeat
       THEN /\ seat' = [seat EXCEPT ![s] = "reserved"]
            /\ joinOptions' = [joinOptions EXCEPT ![s] = pw]
            /\ UNCHANGED lastError
       ELSE /\ seat' = [seat EXCEPT ![s] = "rejected"]
            /\ lastError' = "capacity"
            /\ UNCHANGED joinOptions
  /\ UNCHANGED <<password, players, chatMessages, clients, now>>
  /\ UNCHANGED <<objectVars, processVars, clientVars, mediaVars, awaitVars,
                 listenerVars>>

\* The connection of a reserved seat attaches (Room.clients) and onAuth runs.
onAuth(s) ==
  /\ seat[s] = "reserved"
  /\ IF AuthResult(password, joinOptions[s])
       THEN /\ seat' = [seat EXCEPT ![s] = "auth"]
            /\ clients' = clients \cup {s}
            /\ UNCHANGED lastError
       ELSE /\ seat' = [seat EXCEPT ![s] = "rejected"]
            /\ lastError' = "auth"
            /\ UNCHANGED clients
  /\ UNCHANGED <<password, players, chatMessages, joinOptions, nextSessionId,
                 now>>
  /\ UNCHANGED <<objectVars, processVars, clientVars, mediaVars, awaitVars,
                 listenerVars>>

\* MetaDesk.onJoin: the Participant is created under the client's session id
onJoin(s) ==
  /\ seat[s] = "auth"
  /\ seat' = [seat EXCEPT ![s] = "joined"]
  /\ players' = MapSet(players, s, Player)
  /\ UNCHANGED <<password, chatMessages, clients, joinOptions, nextSessionId,
                 lastError, now>>
  /\ UNCHANGED <<objectVars, processVars, clientVars, mediaVars, awaitVars,
                 listenerVars>>

\* (mutant of onLeave: the Participant is not deleted)
onLeaveKeepsPlayer(s) ==
  /\ s \in clients
  /\ clients' = clients \ {s}
  /\ seat' = [seat EXCEPT ![s] = "closed"]
  /\ UNCHANGED <<password, players, chatMessages, joinOptions, nextSessionId,
                 lastError, now>>
  /\ UNCHANGED <<objectVars, processVars, clientVars, mediaVars, awaitVars,
                 listenerVars>>

\* MetaDesk.onLeave, called when the connection of an attached client closes
onLeave(s) ==
  /\ s \in clients
  /\ clients' = clients \ {s}
  /\ seat' = [seat EXCEPT ![s] = "closed"]
  /\ players' = IF s \in DOMAIN players THEN MapDelete(players, s) ELSE players
  /\ UNCHANGED <<password, chatMessages, joinOptions, nextSessionId,
                 lastError, now>>
  /\ UNCHANGED <<objectVars, processVars, clientVars, mediaVars, awaitVars,
                 listenerVars>>

(***************************************************************************)
(* Command pipeline: append-chat                                           *)
(***************************************************************************)
\* (mutant of ChatAfterAppend: the test is "length > 100")
ChatAfterAppendLate(log, msg) ==
  IF Len(log) > MaxChatMessages
    THEN Append(Shift(log), msg)
    ELSE Append(log, msg)

\* the chat log after ChatMessageUpdateCommand.execute stored one message
ChatAfterAppend(log, msg) ==
  IF Len(log) >= MaxChatMessages
    THEN Append(Shift(log), msg)
    ELSE Append(log, msg)

\* ChatMessageUpdateCommand.execute for a message of client s
ChatMessageUpdateCommand(s, content) ==
  /\ s \in clients
  /\ IF s \notin DOMAIN players
       THEN UNCHANGED <<chatMessages, now>>
       ELSE /\ chatMessages' =
                 ChatAfterAppend(chatMessages,
                                 ChatMessage(players[s].name, content, now))
            /\ now' = now + 1
  /\ UNCHANGED <<password, players, clients, seat, joinOptions,
                 nextSessionId, lastError>>
  /\ UNCHANGED <<objectVars, processVars, clientVars, mediaVars, awaitVars,
                 listenerVars>>

(***************************************************************************)
(* Command pipeline: the message handlers registered in onCreate           *)
(***************************************************************************)
\* "HARD-CODED: Add 5 computers in a room", keys String(0) .. String(4)
NumComputers == 5
ComputerKeys == 0..(NumComputers - 1)

\* "HARD-CODED: Add 3 whiteboards in a room", keys String(0) .. String(2)
NumWhiteboards == 3
WhiteboardKeys == 0..(NumWhiteboards - 1)

\* payloads of the client messages: identifiers of objects that exist and
\* of one that does not, session identifiers, one position, one name
MessageComputerIds == {0, 1, NumComputers}
MessageWhiteboardIds == {0, NumWhiteboards}
MessageClientIds == 1..(ChatSessions + 1)

Message(kind) ==
  [kind |-> kind, x |-> 0, y |-> 0, anim |-> "", name |-> "", clientId |-> 0,
   computerId |-> 0, whiteboardId |-> 0, content |-> 0]

Messages ==
  {[Message("UPDATE_PLAYER") EXCEPT !.x = 705, !.y = 500, !.anim = "adam_run_down"],
   [Message("UPDATE_PLAYER_NAME") EXCEPT !.name = "ann"],
   Message("READY_TO_CONNECT"),
   Message("VIDEO_CONNECTED"),
   [Message("ADD_CHAT_MESSAGE") EXCEPT !.content = 1]}
  \cup {[Message("DISCONNECT_STREAM") EXCEPT !.clientId = c] : c \in MessageClientIds}
  \cup {[Message(k) EXCEPT !.computerId = c] :
          k \in {"STOP_SCREEN_SHARE", "CONNECT_TO_COMPUTER",
                 "DISCONNECT_FROM_COMPUTER"},
          c \in MessageComputerIds}
  \cup {[Message(k) EXCEPT !.whiteboardId = w] :
          k \in {"CONNECT_TO_WHITEBOARD", "DISCONNECT_FROM_WHITEBOARD"},
          w \in MessageWhiteboardIds}

\* this.state of the room
RoomState ==
  [players |-> players, computers |-> computers, whiteboards |-> whiteboards,
   chatMessages |-> chatMessages]

\* PlayerUpdateCommand.execute
PlayerUpdateCommand(st, s, x, y, anim) ==
  IF s \notin DOMAIN st.players THEN st
  ELSE [st EXCEPT !.players[s] = [@ EXCEPT !.x = x, !.y = y, !.anim = anim]]

\* (mutant of PlayerUpdateNameCommand: the new name is also written to the
\* chat entries that carry the old name)
PlayerUpdateNameRewritesChat(st, s, name) ==
  IF s \notin DOMAIN st.players THEN st
  ELSE [st EXCEPT !.players[s].name = name,
                  !.chatMessages =
                     [i \in DOMAIN st.chatMessages |->
                        IF st.chatMessages[i].author = st.players[s].name
                          THEN [st.chatMessages[i] EXCEPT !.author = name]
                          ELSE st.chatMessages[i]]]

\* PlayerUpdateNameCommand.execute
PlayerUpdateNameCommand(st, s, name) ==
  IF s \notin DOMAIN st.players THEN st
  ELSE [st EXCEPT !.players[s].name = name]

\* handler of READY_TO_CONNECT
ReadyToConnect(st, s) ==
  IF s \in DOMAIN st.players
    THEN [st EXCEPT !.players[s].readyToConnect = TRUE]
    ELSE st

\* handler of VIDEO_CONNECTED
VideoConnected(st, s) ==
  IF s \in DOMAIN st.players
    THEN [st EXCEPT !.players[s].videoConnected = TRUE]
    ELSE st

\* handler of DISCONNECT_STREAM: the player is looked up by message.clientId
DisconnectStream(st, s, clientId) ==
  IF clientId \in DOMAIN st.players
    THEN [st EXCEPT !.players[clientId].videoConnected = FALSE]
    ELSE st

\* handler of STOP_SCREEN_SHARE: every user connected to the computer
StopScreenShare(st, s, computerId) ==
  IF computerId \in DOMAIN st.computers
    THEN [st EXCEPT !.players =
            [id \in DOMAIN st.players |->
               IF id \in st.computers[computerId]
                 THEN [st.players[id] EXCEPT !.videoConnected = FALSE]
                 ELSE st.players[id]]]
    ELSE st

\* (mutant of ComputerAddUserCommand: a connected user is disconnected)
ComputerAddUserToggles(st, s, computerId) ==
  IF computerId \notin DOMAIN st.computers THEN st
  ELSE IF s \in st.computers[computerId]
    THEN [st EXCEPT !.computers[computerId] = @ \ {s}]
    ELSE [st EXCEPT !.computers[computerId] = @ \cup {s}]

\* ComputerAddUserCommand.execute
ComputerAddUserCommand(st, s, computerId) ==
  IF computerId \notin DOMAIN st.computers \/ s \in st.computers[computerId]
    THEN st
    ELSE [st EXCEPT !.computers[computerId] = @ \cup {s}]

\* (mutant of ComputerRemoveUserCommand: connectedUser.clear())
ComputerRemoveUserClears(st, s, computerId) ==
  IF computerId \notin DOMAIN st.computers THEN st
  ELSE [st EXCEPT !.computers[computerId] = {}]

\* ComputerRemoveUserCommand.execute
ComputerRemoveUserCommand(st, s, computerId) ==
  IF computerId \notin DOMAIN st.computers THEN st
  ELSE IF s \in st.computers[computerId]
    THEN [st EXCEPT !.computers[computerId] = @ \ {s}]
    ELSE st

\* (mutant of WhiteboardAddUserCommand: a whiteboard that does not exist is
\* created)
WhiteboardAddUserCreates(st, s, whiteboardId) ==
  IF whiteboardId \notin DOMAIN st.whiteboards
    THEN [st EXCEPT !.whiteboards =
            [k \in DOMAIN st.whiteboards \cup {whiteboardId} |->
               IF k = whiteboardId THEN {s} ELSE st.whiteboards[k]]]
    ELSE IF s \in st.whiteboards[whiteboardId] THEN st
    ELSE [st EXCEPT !.whiteboards[whiteboardId] = @ \cup {s}]

\* WhiteboardAddUserCommand.execute
WhiteboardAddUserCommand(st, s, whiteboardId) ==
  IF whiteboardId \notin DOMAIN st.whiteboards
     \/ s \in st.whiteboards[whiteboardId]
    THEN st
    ELSE [st EXCEPT !.whiteboards[whiteboardId] = @ \cup {s}]

\* (mutant of WhiteboardRemoveUserCommand: a whiteboard that does not exist
\* stands for every whiteboard)
WhiteboardRemoveUserFromAll(st, s, whiteboardId) ==
  IF whiteboardId \notin DOMAIN st.whiteboards
    THEN [st EXCEPT !.whiteboards =
            [k \in DOMAIN st.whiteboards |-> st.whiteboards[k] \ {s}]]
  ELSE IF s \in st.whiteboards[whiteboardId]
    THEN [st EXCEPT !.whiteboards[whiteboardId] = @ \ {s}]
    ELSE st

\* WhiteboardRemoveUserCommand.execute
WhiteboardRemoveUserCommand(st, s, whiteboardId) ==
  IF whiteboardId \notin DOMAIN st.whiteboards THEN st
  ELSE IF s \in st.whiteboards[whiteboardId]
    THEN [st EXCEPT !.whiteboards[whiteboardId] = @ \ {s}]
    ELSE st

\* ChatMessageUpdateCommand.execute on the room state, at clock value t
AddChatMessage(st, s, content, t) ==
  IF s \notin DOMAIN st.players THEN st
  ELSE [st EXCEPT !.chatMessages =
          ChatAfterAppend(@, ChatMessage(st.players[s].name, content, t))]

\* the room state after the handler registered for m.kind ran for client s
Handle(st, s, m, t) ==
  CASE m.kind = "UPDATE_PLAYER" -> PlayerUpdateCommand(st, s, m.x, m.y, m.anim)
    [] m.kind = "UPDATE_PLAYER_NAME" -> PlayerUpdateNameCommand(st, s, m.name)
    [] m.kind = "READY_TO_CONNECT" -> ReadyToConnect(st, s)
    [] m.kind = "VIDEO_CONNECTED" -> VideoConnected(st, s)
    [] m.kind = "DISCONNECT_STREAM" -> DisconnectStream(st, s, m.clientId)
    [] m.kind = "STOP_SCREEN_SHARE" -> StopScreenShare(st, s, m.computerId)
    [] m.kind = "CONNECT_TO_COMPUTER" ->
         ComputerAddUserCommand(st, s, m.computerId)
    [] m.kind = "DISCONNECT_FROM_COMPUTER" ->
         ComputerRemoveUserCommand(st, s, m.computerId)
    [] m.kind = "CONNECT_TO_WHITEBOARD" ->
         WhiteboardAddUserCommand(st, s, m.whiteboardId)
    [] m.kind = "DISCONNECT_FROM_WHITEBOARD" ->
         WhiteboardRemoveUserCommand(st, s, m.whiteboardId)
    [] m.kind = "ADD_CHAT_MESSAGE" -> AddChatMessage(st, s, m.content, t)

\* repeat: the message is the one the room handled just before, from the
\* same client
NoMessage == [client |-> 0, message |-> Message("none"), repeat |-> FALSE]

\* The room receives message m on the connection of client s and runs the
\* handler registered with this.onMessage for its kind.
onMessage(s, m) ==
  LET st == Handle(RoomState, s, m, now) IN
  /\ s \in clients
  /\ players' = st.players
  /\ computers' = st.computers
  /\ whiteboards' = st.whiteboards
  /\ chatMessages' = st.chatMessages
  /\ now' = IF st.chatMessages # chatMessages THEN now + 1 ELSE now
  /\ lastMessage' = [client |-> s, message |-> m,
                     repeat |-> lastMessage.client = s /\ lastMessage.message = m]
  /\ handled' = handled + 1
  /\ UNCHANGED <<password, clients, seat, joinOptions, nextSessionId, lastError>>
  /\ UNCHANGED <<processVars, clientVars, mediaVars, awaitVars,
                 listenerVars>>

(***************************************************************************)
(* Authority process: rooms and collaboration-surface identifiers          *)
(***************************************************************************)
RoomIndexes == 1..MaxRooms

\* the 12-character strings Math.random() can spell, cut down to six
RoomIdCandidates == {"a", "b", "c", "d", "e", "f"}
NoRoomId == ""

\* the candidates Math.random() yields during one call of getRoomId, in the
\* order they are drawn
CallDraws == UNION {[1..n -> RoomIdCandidates] : n \in 1..(1 + MaxCollisions)}

\* (mutant of getRoomId: the candidate is returned without the has() test)
getRoomIdUnchecked(reserved, draws) ==
  IF draws = <<>>
    THEN [roomId |-> NoRoomId, reserved |-> reserved, draws |-> draws,
          collided |-> 0]
    ELSE [roomId |-> Head(draws), reserved |-> reserved \cup {Head(draws)},
          draws |-> Tail(draws), collided |-> 0]

\* getRoomId(): a candidate that is not reserved is reserved and returned;
\* on a reserved candidate the function calls itself. roomId is NoRoomId
\* when the draws of the model ran out before the function returned.
RECURSIVE getRoomId(_, _)
getRoomId(reserved, draws) ==
  IF draws = <<>>
    THEN [roomId |-> NoRoomId, reserved |-> reserved, draws |-> draws,
          collided |-> 0]
    ELSE IF Head(draws) \notin reserved
      THEN [roomId |-> Head(draws), reserved |-> reserved \cup {Head(draws)},
            draws |-> Tail(draws), collided |-> 0]
      ELSE LET r == getRoomId(reserved, Tail(draws))
           IN [r EXCEPT !.collided = @ + 1]

\* the loop "for (let i = 0; i < 3; i++) whiteboards.set(String(i), new
\* Whiteboard())" from key i on; new Whiteboard() calls getRoomId()
RECURSIVE NewWhiteboards(_, _, _, _, _)
NewWhiteboards(i, boards, reserved, draws, collided) ==
  IF i = NumWhiteboards
    THEN [boards |-> boards, reserved |-> reserved, draws |-> draws,
          collided |-> collided]
    ELSE LET r == getRoomId(reserved, draws)
         IN NewWhiteboards(i + 1, [boards EXCEPT ![i] = r.roomId], r.reserved,
                           r.draws, collided + r.collided)

NoBoards == [k \in WhiteboardKeys |-> NoRoomId]
NoRoom == [state |-> "none", boards |-> NoBoards]

\* MetaDesk.onCreate for room r of the process: the state is set up with
\* five computers and three whiteboards. Room 1 is the room whose state the
\* model keeps in full.
onCreate(r, draws) ==
  LET w == NewWhiteboards(0, NoBoards, whiteboardRoomIds, draws, 0) IN
  /\ rooms[r].state = "none"
  /\ \A q \in RoomIndexes : q < r => rooms[q].state # "none"
  /\ w.draws = <<>>
  /\ \A k \in WhiteboardKeys : w.boards[k] # NoRoomId
  /\ rooms' = [rooms EXCEPT ![r] = [state |-> "created", boards |-> w.boards]]
  /\ whiteboardRoomIds' = w.reserved
  /\ collisions' = collisions + w.collided
  /\ IF r = 1
       THEN /\ computers' = [k \in ComputerKeys |-> {}]
            /\ whiteboards' = [k \in WhiteboardKeys |-> {}]
       ELSE UNCHANGED <<computers, whiteboards>>
  /\ UNCHANGED <<lastMessage, handled>>
  /\ UNCHANGED <<serverVars, clientVars, mediaVars, awaitVars,
                 listenerVars>>

\* MetaDesk.onDispose: the room logs that it is disposing
onDispose(r) ==
  /\ rooms[r].state = "created"
  /\ r = 1 => clients = {}
  /\ rooms' = [rooms EXCEPT ![r].state = "disposed"]
  /\ UNCHANGED <<whiteboardRoomIds, collisions>>
  /\ UNCHANGED <<serverVars, clientVars, objectVars, mediaVars, awaitVars,
                 listenerVars>>

(***************************************************************************)
(* Client: the Network service                                             *)
(***************************************************************************)
TaskIds == 1..MaxTasks

\* RoomType and the values kept in lastRoomType / lastRoomData
Undefined == "undefined"
NoData == [kind |-> "undefined", roomId |-> "none", password |-> NoPassword]
NullData == [kind |-> "null", roomId |-> "none", password |-> NoPassword]
ByIdData(r, p) == [kind |-> "byId", roomId |-> r, password |-> p]
CreateData == [kind |-> "create", roomId |-> "none", password |-> NoPassword]

\* the three join methods, with their arguments
NoCall == [fn |-> "none", data |-> NoData]
PublicCall == [fn |-> "joinOrCreatePublic", data |-> NullData]
ByIdCall(r, p) == [fn |-> "joinCustomById", data |-> ByIdData(r, p)]
CreateCall == [fn |-> "createCustom", data |-> CreateData]

\* join calls the caller may make (lobby dialogs)
CallerCalls == {ByIdCall(r, "secret") : r \in CustomRoomIds} \cup {CreateCall}

\* the room a successful join call ends in; create makes a new room
RoomKey(call) ==
  CASE call.fn = "joinOrCreatePublic" -> "public"
    [] call.fn = "joinCustomById" -> call.data.roomId
    [] call.fn = "createCustom" -> "created"
    [] OTHER -> "none"

\* first statements of joinOrCreatePublic / joinCustomById / createCustom
RoomTypeOf(call) ==
  IF call.fn = "joinOrCreatePublic" THEN "PUBLIC" ELSE "CUSTOM"

\* Network.attemptReconnection: the join call it makes, NoCall for none
ReconnectCall(type, data) ==
  CASE type = Undefined -> NoCall
    [] type = "PUBLIC" -> PublicCall
    [] type = "CUSTOM" ->
         IF data.kind \in {"undefined", "null"} THEN NoCall
         ELSE IF data.kind = "byId" THEN ByIdCall(data.roomId, data.password)
         ELSE CreateCall
    [] OTHER -> NoCall

\* a Room object of the client: no join made under this session id yet
NoConn ==
  [state |-> "none", target |-> "none", hA |-> FALSE, hB |-> FALSE,
   once |-> FALSE, cause |-> 0, via |-> "none", lost |-> "none"]

\* a free slot of the task table
NoTask ==
  [pc |-> "idle", root |-> "none", attempt |-> 0, call |-> NoCall,
   retry |-> 0, conn |-> 0, cause |-> 0, via |-> "none", lost |-> "none",
   attempts |-> 0]

FreeTasks == {t \in TaskIds : tasks[t].pc = "idle"}
Lowest(S) == CHOOSE t \in S : \A u \in S : t <= u

\* "Synchronized": ready, and neither connecting nor disconnecting
Synchronized == ready /\ ~connecting /\ ~disconnecting

\* a task enters a join method: the target is recorded, the transport
\* handshake (joinOrCreate / joinById / create) is awaited
EnterJoin(tk, call) ==
  [tk EXCEPT !.pc = "join", !.call = call, !.retry = 0, !.conn = 0,
             !.attempts = tk.attempts + 1]

\* a join method returned normally to the root of the chain
ReturnsToRoot(t) ==
  /\ lobbyJoined' = (lobbyJoined \/ tasks[t].root = "connectWithRetry")
  /\ UNCHANGED callerError

\* Network.retryRoomConnection(connectFn, k): throws beyond maxRetries
RetryThrows(k) == k > maxRetries

\* Network.connectWithRetry: another attempt after a failed one?
RetryAgain(attempt) == attempt < maxRetries

\* An error leaves the join method of task t and reaches the root of the
\* chain: connectWithRetry, attemptReconnection, a timer callback or the
\* caller.
RootCatches(t) ==
  LET tk == tasks[t] IN
  IF tk.root = "connectWithRetry"
    THEN IF RetryAgain(tk.attempt)
           THEN \* delay, then connectWithRetry(attempt + 1)
                /\ tasks' = [tasks EXCEPT ![t] =
                       [EnterJoin(tk, PublicCall) EXCEPT !.attempt = tk.attempt + 1]]
                /\ lastRoomType' = "PUBLIC"
                /\ lastRoomData' = NullData
                /\ UNCHANGED <<lobbyJoined, callerError>>
           ELSE \* setTimeout(() => connectWithRetry(1), 10000)
                /\ tasks' = [tasks EXCEPT ![t] =
                       [NoTask EXCEPT !.pc = "timer", !.root = "connectWithRetry",
                                      !.call = PublicCall]]
                /\ lastRoomType' = Undefined
                /\ lastRoomData' = NoData
                /\ UNCHANGED <<lobbyJoined, callerError>>
    ELSE /\ tasks' = [tasks EXCEPT ![t] = NoTask]
         /\ callerError' = (callerError \/ tk.root = "caller")
         /\ UNCHANGED <<lastRoomType, lastRoomData, lobbyJoined>>

\* An error is thrown inside the join method of task t (failed handshake or
\* failed initialize) and caught by the method or by retryRoomConnection.
\* seatErr: the error message includes 'seat reservation'.
Catches(t, seatErr) ==
  LET tk == tasks[t] IN
  IF tk.retry = 0
    THEN IF tk.call.fn = "joinOrCreatePublic" /\ seatErr
           THEN \* setTimeout(() => joinOrCreatePublic(), 500); return
                /\ tasks' = [tasks EXCEPT ![t] =
                       [NoTask EXCEPT !.pc = "timer", !.root = "joinOrCreatePublic",
                                      !.call = PublicCall, !.cause = tk.cause,
                                      !.via = tk.via, !.lost = tk.lost,
                                      !.attempts = tk.attempts]]
                /\ ReturnsToRoot(t)
                /\ UNCHANGED <<lastRoomType, lastRoomData>>
           ELSE \* retryRoomConnection(connectFn, 1)
                /\ tasks' = [tasks EXCEPT ![t] =
                       [tk EXCEPT !.pc = "join", !.retry = 1, !.conn = 0,
                                  !.attempts = tk.attempts + 1]]
                /\ UNCHANGED <<lastRoomType, lastRoomData, lobbyJoined, callerError>>
    ELSE IF RetryThrows(tk.retry + 1)
           THEN RootCatches(t)
           ELSE \* retryRoomConnection(connectFn, attempt + 1)
                /\ tasks' = [tasks EXCEPT ![t] =
                       [tk EXCEPT !.pc = "join", !.retry = tk.retry + 1, !.conn = 0,
                                  !.attempts = tk.attempts + 1]]
                /\ UNCHANGED <<lastRoomType, lastRoomData, lobbyJoined, callerError>>

\* the authority admitted session c of this client (public room: onJoin)
AuthorityAdmits(c, key) ==
  /\ nextSessionId' = c + 1
  /\ IF key = "public"
       THEN /\ seat' = [seat EXCEPT ![c] = "joined"]
            /\ clients' = clients \cup {c}
            /\ players' = MapSet(players, c, Player)
       ELSE UNCHANGED <<seat, clients, players>>
  /\ UNCHANGED <<password, chatMessages, joinOptions, lastError, now>>
  /\ UNCHANGED <<objectVars, processVars, mediaVars>>

\* the authority saw the connection of session c close (public room: onLeave)
AuthorityDrops(c) ==
  /\ IF c \in clients
       THEN /\ seat' = [seat EXCEPT ![c] = "closed"]
            /\ clients' = clients \ {c}
            /\ players' = IF c \in DOMAIN players THEN MapDelete(players, c)
                          ELSE players
       ELSE UNCHANGED <<seat, clients, players>>
  /\ UNCHANGED <<password, chatMessages, joinOptions, nextSessionId,
                 lastError, now>>
  /\ UNCHANGED <<objectVars, processVars, mediaVars>>

\* The transport handshake of task t succeeds: this.room is the new Room;
\* joinOrCreatePublic registers its handlers; initialize() runs up to its
\* wait for the first state.
JoinOk(t) ==
  LET tk == tasks[t]
      c == nextSessionId
      key == RoomKey(tk.call)
      mainPath == tk.retry = 0 /\ tk.call.fn = "joinOrCreatePublic"
      skip == connecting \/ disconnecting
  IN
  /\ tk.pc = "join"
  /\ c \in Sessions
  /\ room' = c
  /\ conns' = [conns EXCEPT ![c] =
        [state |-> "open", target |-> key, hA |-> mainPath, hB |-> ~skip,
         once |-> ~skip, cause |-> tk.cause, via |-> tk.via, lost |-> tk.lost]]
  /\ AuthorityAdmits(c, key)
  /\ IF skip
       THEN \* initialize returns at once, and the join method returns
            /\ tasks' = [tasks EXCEPT ![t] = NoTask]
            /\ ReturnsToRoot(t)
            /\ UNCHANGED <<ready, connecting, sessionId>>
       ELSE /\ connecting' = TRUE
            /\ ready' = FALSE
            /\ sessionId' = c
            /\ tasks' = [tasks EXCEPT ![t] = [tk EXCEPT !.pc = "init", !.conn = c]]
            /\ UNCHANGED <<lobbyJoined, callerError>>
  /\ UNCHANGED <<disconnecting, reconnectTimer, lastRoomType, lastRoomData,
                 lastCommand, failures, closes, callerJoins>>
  /\ UNCHANGED <<awaitVars, setups, seenName, joinedEvents, updatedEvents>>

\* The transport handshake of task t fails.
JoinFail(t, seatErr) ==
  /\ tasks[t].pc = "join"
  /\ Catches(t, seatErr)
  /\ failures' = failures + 1
  /\ UNCHANGED <<room, ready, connecting, disconnecting, reconnectTimer, conns,
                 lastCommand, closes, callerJoins>>
  /\ UNCHANGED <<serverVars, objectVars, processVars, mediaVars, awaitVars,
                 listenerVars>>

\* initialize: no state arrived within 10 s
InitTimeout(t) ==
  /\ tasks[t].pc = "init"
  /\ connecting' = FALSE
  /\ ready' = FALSE
  /\ Catches(t, FALSE)
  /\ failures' = failures + 1
  /\ UNCHANGED <<room, disconnecting, reconnectTimer, conns, lastCommand,
                 closes, callerJoins>>
  /\ UNCHANGED <<serverVars, objectVars, processVars, mediaVars, awaitVars,
                 listenerVars>>

\* Network.setupStateListeners: one run, on the state of the Room that
\* this.room holds, with the session id that this.mySessionId holds
SetupRun(r, me) == [room |-> r, me |-> me]

\* setupStateListeners returns at once without this.room.state. The state of
\* the Room in this.room is taken to exist when that Room delivered it: it
\* is the Room whose callback runs, or its own callback ran before.
HasState(c) ==
  \/ room = c
  \/ conns[room].state = "open" /\ conns[room].hB /\ ~conns[room].once

\* initialize: the onStateChange.once callback of Room c runs
StateChange(c) ==
  LET waiting == {t \in TaskIds : tasks[t].pc = "init" /\ tasks[t].conn = c} IN
  /\ conns[c].state = "open"
  /\ conns[c].once
  /\ conns' = [conns EXCEPT ![c].once = FALSE]
  /\ setups' = IF HasState(c) THEN Append(setups, SetupRun(room, sessionId))
                 ELSE setups
  /\ ready' = TRUE
  /\ connecting' = FALSE
  /\ IF waiting = {}
       THEN UNCHANGED <<tasks, lobbyJoined, callerError>>
       ELSE LET t == Lowest(waiting) IN
            /\ tasks' = [tasks EXCEPT ![t] = NoTask]
            /\ ReturnsToRoot(t)
  /\ UNCHANGED <<room, disconnecting, reconnectTimer, lastRoomType,
                 lastRoomData, lastCommand, failures, closes, callerJoins>>
  /\ UNCHANGED <<serverVars, objectVars, processVars, mediaVars, awaitVars>>
  /\ UNCHANGED <<sessionId, seenName, joinedEvents, updatedEvents>>

\* a pending timer fires: connectWithRetry(1) or joinOrCreatePublic()
TimerFire(t) ==
  LET tk == tasks[t] IN
  /\ tk.pc = "timer"
  /\ tasks' = [tasks EXCEPT ![t] =
        [EnterJoin(tk, PublicCall) EXCEPT
           !.attempt = IF tk.root = "connectWithRetry" THEN 1 ELSE 0]]
  /\ lastRoomType' = "PUBLIC"
  /\ lastRoomData' = NullData
  /\ reconnectTimer' = IF reconnectTimer = t THEN 0 ELSE reconnectTimer
  /\ UNCHANGED <<room, ready, connecting, disconnecting, conns, lobbyJoined,
                 callerError, lastCommand, failures, closes, callerJoins>>
  /\ UNCHANGED <<serverVars, objectVars, processVars, mediaVars, awaitVars,
                 listenerVars>>

\* (mutant of ReconnectSlot: the pending timer is not cleared)
ReconnectSlotKeepsTimer(timer, free) ==
  IF free = {} THEN timer ELSE Lowest(free)

\* Network.scheduleReconnect: the slot of the timer it arms; a pending timer
\* is cleared first, so the new timer takes its place
ReconnectSlot(timer, free) ==
  IF timer # 0 THEN timer ELSE Lowest(free)

\* close codes of the room channel
NormalClose == 1000
AbnormalClose == 1006
IsAbnormal(code) == code > 1000

\* The channel of Room c closes with the given code; its onLeave handlers
\* run in the order they were registered: the one of joinOrCreatePublic
\* (scheduleReconnect), then the one of initialize (attemptReconnection).
ConnClose(c, code) ==
  LET cn == conns[c]
      lostRoom == IF c = room /\ Synchronized THEN cn.target ELSE "none"
      \* handler of joinOrCreatePublic
      runA == cn.hA /\ IsAbnormal(code)
      slotA == ReconnectSlot(reconnectTimer, FreeTasks)
      timerTask == [NoTask EXCEPT !.pc = "timer", !.root = "connectWithRetry",
                                  !.call = PublicCall, !.cause = c,
                                  !.via = "scheduleReconnect", !.lost = lostRoom]
      tasksA == IF runA THEN [tasks EXCEPT ![slotA] = timerTask] ELSE tasks
      \* handler of initialize
      call == ReconnectCall(lastRoomType, lastRoomData)
      runB == cn.hB /\ IsAbnormal(code) /\ ~connecting /\ call # NoCall
      freeB == {t \in TaskIds : tasksA[t].pc = "idle"}
      slotB == Lowest(freeB)
      joinTask == EnterJoin([NoTask EXCEPT !.root = "attemptReconnection",
                                           !.cause = c,
                                           !.via = "attemptReconnection",
                                           !.lost = lostRoom], call)
  IN
  /\ cn.state = "open"
  /\ runA /\ reconnectTimer = 0 => FreeTasks # {}
  /\ runB => freeB # {}
  /\ conns' = [conns EXCEPT ![c].state = "closed", ![c].once = FALSE]
  /\ reconnectTimer' = IF runA THEN slotA ELSE reconnectTimer
  /\ tasks' = IF runB THEN [tasksA EXCEPT ![slotB] = joinTask] ELSE tasksA
  /\ ready' = IF cn.hB THEN FALSE ELSE ready
  /\ disconnecting' = IF cn.hB THEN FALSE ELSE disconnecting
  /\ lastRoomType' = IF runB THEN RoomTypeOf(call) ELSE lastRoomType
  /\ lastRoomData' = IF runB THEN call.data ELSE lastRoomData
  /\ AuthorityDrops(c)
  /\ closes' = closes + 1
  /\ UNCHANGED <<room, connecting, lobbyJoined, callerError, lastCommand,
                 failures, callerJoins>>
  /\ UNCHANGED <<awaitVars, listenerVars>>

\* this.room.onError handler registered by joinOrCreatePublic on Room c: a
\* 'seat reservation' error arms a 500 ms timer for joinOrCreatePublic, any
\* other error runs scheduleReconnect
RoomError(c, seatErr) ==
  LET slot == IF seatErr THEN Lowest(FreeTasks)
              ELSE ReconnectSlot(reconnectTimer, FreeTasks)
      timerTask ==
        IF seatErr
          THEN [NoTask EXCEPT !.pc = "timer", !.root = "joinOrCreatePublic",
                              !.call = PublicCall]
          ELSE [NoTask EXCEPT !.pc = "timer", !.root = "connectWithRetry",
                              !.call = PublicCall, !.cause = c,
                              !.via = "scheduleReconnect"]
  IN
  /\ conns[c].state = "open"
  /\ conns[c].hA
  /\ (seatErr \/ reconnectTimer = 0) => FreeTasks # {}
  /\ tasks' = [tasks EXCEPT ![slot] = timerTask]
  /\ reconnectTimer' = IF seatErr THEN reconnectTimer ELSE slot
  /\ failures' = failures + 1
  /\ UNCHANGED <<room, ready, connecting, disconnecting, lastRoomType,
                 lastRoomData, conns, lobbyJoined, callerError, lastCommand,
                 closes, callerJoins>>
  /\ UNCHANGED <<serverVars, objectVars, processVars, mediaVars, awaitVars,
                 listenerVars>>

\* the caller joins a custom room by id, or creates one
CallerJoin(call) ==
  /\ FreeTasks # {}
  /\ tasks' = [tasks EXCEPT ![Lowest(FreeTasks)] =
        EnterJoin([NoTask EXCEPT !.root = "caller"], call)]
  /\ lastRoomType' = RoomTypeOf(call)
  /\ lastRoomData' = call.data
  /\ callerJoins' = callerJoins + 1
  /\ UNCHANGED <<room, ready, connecting, disconnecting, reconnectTimer, conns,
                 lobbyJoined, callerError, lastCommand, failures, closes>>
  /\ UNCHANGED <<serverVars, objectVars, processVars, mediaVars, awaitVars,
                 listenerVars>>

(***************************************************************************)
(* Client: joinOrCreatePublic, statement by statement                      *)
(***************************************************************************)
\* answers of the environment
Up == "up"
Failing == "failing"
Silent == "silent"

\* joinOrCreatePublic() is called: lastRoomType, lastRoomData are recorded and
\* this.client.joinOrCreate(RoomType.PUBLIC) is awaited
joinOrCreatePublic ==
  /\ joinPc = "idle"
  /\ joinPc' = "joinOrCreate"
  /\ lastRoomType' = "PUBLIC"
  /\ lastRoomData' = NullData
  /\ UNCHANGED <<room, ready, connecting, disconnecting, reconnectTimer, conns,
                 tasks, lobbyJoined, callerError, lastCommand, failures,
                 closes, callerJoins>>
  /\ UNCHANGED <<transport, stateSync, firestore, currentUser, chatSends,
                 chatSaves>>
  /\ UNCHANGED <<serverVars, objectVars, processVars, mediaVars, listenerVars>>

\* this.room = await this.client.joinOrCreate(...): the handshake succeeds
\* and the call goes on to `await this.startRoomSession()`
joinOrCreateResolves ==
  LET c == nextSessionId IN
  /\ joinPc = "joinOrCreate"
  /\ transport = Up
  /\ c \in Sessions
  /\ room' = c
  /\ AuthorityAdmits(c, "public")
  /\ joinPc' = "startRoomSession"
  /\ UNCHANGED <<ready, connecting, disconnecting, reconnectTimer, lastRoomType,
                 lastRoomData, conns, tasks, lobbyJoined, callerError,
                 lastCommand, failures, closes, callerJoins>>
  /\ UNCHANGED <<transport, stateSync, firestore, currentUser, chatSends,
                 chatSaves>>
  /\ UNCHANGED listenerVars

\* Network.startRoomSession returns: there is no current user, or the
\* service answered, or it failed and the error was caught and logged
startRoomSession ==
  /\ joinPc = "startRoomSession"
  /\ ~currentUser \/ firestore \in {Up, Failing}
  /\ joinPc' = "loadChatHistory"
  /\ UNCHANGED clientVars
  /\ UNCHANGED <<transport, stateSync, firestore, currentUser, chatSends,
                 chatSaves>>
  /\ UNCHANGED <<serverVars, objectVars, processVars, mediaVars, listenerVars>>

\* Network.loadChatHistory returns: the service answered, or it failed and
\* the error was caught and logged. joinOrCreatePublic registers its room
\* handlers and calls initialize, which sets connecting and awaits the first
\* room state.
loadChatHistory ==
  /\ joinPc = "loadChatHistory"
  /\ firestore \in {Up, Failing}
  /\ IF connecting \/ disconnecting
       THEN /\ joinPc' = "returned"
            /\ UNCHANGED <<ready, connecting, sessionId>>
       ELSE /\ joinPc' = "initialize"
            /\ connecting' = TRUE
            /\ ready' = FALSE
            /\ sessionId' = room
  /\ UNCHANGED <<room, disconnecting, reconnectTimer, lastRoomType, lastRoomData,
                 conns, tasks, lobbyJoined, callerError, lastCommand, failures,
                 closes, callerJoins>>
  /\ UNCHANGED <<transport, stateSync, firestore, currentUser, chatSends,
                 chatSaves>>
  /\ UNCHANGED <<serverVars, objectVars, processVars, mediaVars>>
  /\ UNCHANGED <<setups, seenName, joinedEvents, updatedEvents>>

\* initialize: the onStateChange.once callback runs; the timeout is cleared
initializeResolves ==
  /\ joinPc = "initialize"
  /\ stateSync = Up
  /\ ready' = TRUE
  /\ connecting' = FALSE
  /\ joinPc' = "returned"
  /\ UNCHANGED <<room, disconnecting, reconnectTimer, lastRoomType, lastRoomData,
                 conns, tasks, lobbyJoined, callerError, lastCommand, failures,
                 closes, callerJoins>>
  /\ UNCHANGED <<transport, stateSync, firestore, currentUser, chatSends,
                 chatSaves>>
  /\ setups' = Append(setups, SetupRun(room, sessionId))
  /\ UNCHANGED <<serverVars, objectVars, processVars, mediaVars>>
  /\ UNCHANGED <<sessionId, seenName, joinedEvents, updatedEvents>>

\* initialize: no state arrived within 10 s; the promise is rejected, the
\* catch block resets connecting and ready and rethrows
initializeTimesOut ==
  /\ joinPc = "initialize"
  /\ stateSync = Silent
  /\ ready' = FALSE
  /\ connecting' = FALSE
  /\ joinPc' = "failed"
  /\ UNCHANGED <<room, disconnecting, reconnectTimer, lastRoomType, lastRoomData,
                 conns, tasks, lobbyJoined, callerError, lastCommand, failures,
                 closes, callerJoins>>
  /\ UNCHANGED <<transport, stateSync, firestore, currentUser, chatSends,
                 chatSaves>>
  /\ UNCHANGED <<serverVars, objectVars, processVars, mediaVars, listenerVars>>

\* Network.addChatMessage: this.room?.send(ADD_CHAT_MESSAGE), then, with a
\* current user, saveChatToFirestore(...) is started and not awaited
addChatMessage ==
  /\ chatSends' = IF room # 0 THEN chatSends + 1 ELSE chatSends
  /\ chatSaves' = IF currentUser /\ room # 0 THEN chatSaves + 1 ELSE chatSaves
  /\ UNCHANGED clientVars
  /\ UNCHANGED <<joinPc, transport, stateSync, firestore, currentUser>>
  /\ UNCHANGED <<serverVars, objectVars, processVars, mediaVars, listenerVars>>

\* saveChatToFirestore returns: the service answered, or failed and the
\* error was caught and logged
saveChatToFirestore ==
  /\ chatSaves > 0
  /\ firestore \in {Up, Failing}
  /\ chatSaves' = chatSaves - 1
  /\ UNCHANGED clientVars
  /\ UNCHANGED <<joinPc, transport, stateSync, firestore, currentUser, chatSends>>
  /\ UNCHANGED <<serverVars, objectVars, processVars, mediaVars, listenerVars>>

(***************************************************************************)
(* Client: the listeners handlePlayerAdd installs                          *)
(***************************************************************************)
\* player.listen('name', ...) of an observing client for the participant
\* with roster key s: a change of the name reaches the listener, which
\* raises PLAYER_UPDATED and, for a value other than '', PLAYER_JOINED
playerNameListener(s) ==
  /\ s \in DOMAIN players
  /\ players[s].name # seenName[s]
  /\ seenName' = [seenName EXCEPT ![s] = players[s].name]
  /\ updatedEvents' = [updatedEvents EXCEPT ![s] = @ + 1]
  /\ joinedEvents' =
       [joinedEvents EXCEPT ![s] = IF players[s].name # "" THEN @ + 1 ELSE @]
  /\ UNCHANGED <<sessionId, setups>>
  /\ UNCHANGED <<serverVars, clientVars, objectVars, processVars, mediaVars,
                 awaitVars>>

(***************************************************************************)
(* Client: the media manager (WebRTC)                                      *)
(***************************************************************************)
MediaPeers == 1..MaxPeers

\* identifiers are sequences of characters
SessionIds == {<<"a", "-", "b">>, <<"a", "_", "b">>, <<"c", "d", "e">>}

\* the participants are numbered in the order of their session identifiers
SessionRank(id) ==
  IF id = <<"a", "-", "b">> THEN 1 ELSE IF id = <<"a", "_", "b">> THEN 2 ELSE 3

\* 'temp-' + Math.random().toString(36).substr(2, 9)
TempIdOf(p) == <<"t", "-", IF p = 1 THEN "1" ELSE IF p = 2 THEN "2" ELSE "3">>

Alphanumeric == {"a", "b", "c", "d", "e", "t", "G", "1", "2", "3"}

\* WebRTC.replaceInvalidId: userId.replace(/[^a-zA-Z0-9]/g, "G")
replaceInvalidId(id) ==
  [i \in DOMAIN id |-> IF id[i] \in Alphanumeric THEN id[i] ELSE "G"]

\* the addresses a media manager can register or call
Addresses ==
  {replaceInvalidId(u) : u \in SessionIds \cup {TempIdOf(p) : p \in MediaPeers}}

\* new Peer(sanitizedId, ...): the address participant p registers
myPeer(p) == replaceInvalidId(userId[p])

NoLinks == [a \in Addresses |-> 0]

\* no address: the handler that ran is not about one peer
NoAddress == <<>>

\* handler op of the media manager of participant p ran for address a
Ran(op, p, a) == [op |-> op, p |-> p, a |-> a]

NoMedia == Ran("none", 0, NoAddress)

\* this.myPeer.call(sanitizedId, this.myStream) by participant p
NewCall(p, a) ==
  [caller |-> p, peer |-> a, callee |-> 0, state |-> "calling",
   rejected |-> FALSE, callerEvent |-> "none", calleeEvent |-> "none"]

CallIds == 1..Len(calls)

\* call.close() by one side of call c: the other side may observe 'close'
CloseBy(cs, c, side) ==
  IF c = 0 \/ cs[c].state = "closed" THEN cs
  ELSE [cs EXCEPT ![c].state = "closed",
                  ![c].callerEvent =
                     IF side = "callee" THEN "pending" ELSE cs[c].callerEvent,
                  ![c].calleeEvent =
                     IF side = "caller" /\ cs[c].callee # 0 THEN "pending"
                     ELSE cs[c].calleeEvent]

\* WebRTC.getUserMedia: the capture stream is acquired
getUserMedia(p) ==
  /\ ~myStream[p]
  /\ myStream' = [myStream EXCEPT ![p] = TRUE]
  /\ videoEnabled' = [videoEnabled EXCEPT ![p] = TRUE]
  /\ lastMedia' = Ran("getUserMedia", p, NoAddress)
  /\ UNCHANGED <<mySessionId, userId, peers, onCalledPeers, calls,
                 presenceEvents, mediaErrors>>
  /\ UNCHANGED <<serverVars, clientVars, objectVars, processVars, awaitVars,
                 listenerVars>>

\* (mutant of connectToNewUser: the call is made without a local stream)
connectToNewUserWithoutStream(p, id) ==
  LET sanitizedId == replaceInvalidId(id) IN
  /\ IF peers[p][sanitizedId] # 0
       THEN UNCHANGED <<peers, calls>>
       ELSE /\ calls' = Append(calls, NewCall(p, sanitizedId))
            /\ peers' = [peers EXCEPT ![p][sanitizedId] = Len(calls) + 1]
  /\ presenceEvents' = presenceEvents + 1
  /\ lastMedia' = Ran("connectToNewUser", p, sanitizedId)
  /\ UNCHANGED <<mySessionId, userId, myStream, onCalledPeers, videoEnabled, mediaErrors>>
  /\ UNCHANGED <<serverVars, clientVars, objectVars, processVars, awaitVars,
                 listenerVars>>

\* WebRTC.connectToNewUser(userId) of participant p
connectToNewUser(p, id) ==
  LET sanitizedId == replaceInvalidId(id) IN
  /\ IF ~myStream[p] \/ peers[p][sanitizedId] # 0
       THEN UNCHANGED <<peers, calls>>
       ELSE /\ calls' = Append(calls, NewCall(p, sanitizedId))
            /\ peers' = [peers EXCEPT ![p][sanitizedId] = Len(calls) + 1]
  /\ presenceEvents' = presenceEvents + 1
  /\ lastMedia' = Ran("connectToNewUser", p, sanitizedId)
  /\ UNCHANGED <<mySessionId, userId, myStream, onCalledPeers, videoEnabled, mediaErrors>>
  /\ UNCHANGED <<serverVars, clientVars, objectVars, processVars, awaitVars,
                 listenerVars>>

\* (mutant of onCall: the call is answered whether or not a stream exists)
onCallAnswersAlways(q, c) ==
  /\ c \in CallIds
  /\ calls[c].state = "calling" /\ calls[c].callee = 0
  /\ q # calls[c].caller /\ myPeer(q) = calls[c].peer
  /\ calls' = [calls EXCEPT ![c].callee = q, ![c].state = "answered"]
  /\ onCalledPeers' = [onCalledPeers EXCEPT ![q][myPeer(calls[c].caller)] = c]
  /\ lastMedia' = Ran("call", q, myPeer(calls[c].caller))
  /\ UNCHANGED <<mySessionId, userId, myStream, peers, presenceEvents,
                 videoEnabled, mediaErrors>>
  /\ UNCHANGED <<serverVars, clientVars, objectVars, processVars, awaitVars,
                 listenerVars>>

\* this.myPeer.on("call", ...) of participant q: call c, made to the address
\* q registered, arrives; call.peer is the address of the caller
onCall(q, c) ==
  /\ c \in CallIds
  /\ calls[c].state = "calling" /\ calls[c].callee = 0
  /\ q # calls[c].caller /\ myPeer(q) = calls[c].peer
  /\ IF myStream[q]
       THEN /\ calls' = [calls EXCEPT ![c].callee = q, ![c].state = "answered"]
            /\ onCalledPeers' =
                 [onCalledPeers EXCEPT ![q][myPeer(calls[c].caller)] = c]
       ELSE /\ calls' = CloseBy([calls EXCEPT ![c].callee = q,
                                              ![c].rejected = TRUE],
                                c, "callee")
            /\ UNCHANGED onCalledPeers
  /\ lastMedia' = Ran("call", q, myPeer(calls[c].caller))
  /\ UNCHANGED <<mySessionId, userId, myStream, peers, presenceEvents,
                 videoEnabled, mediaErrors>>
  /\ UNCHANGED <<serverVars, clientVars, objectVars, processVars, awaitVars,
                 listenerVars>>

\* call.on("close", ...) registered by connectToNewUser: the caller of call c
\* observes 'close' and runs deleteVideoStream(sanitizedId)
callerOnClose(c) ==
  LET p == calls[c].caller
      a == calls[c].peer
  IN
  /\ c \in CallIds
  /\ calls[c].callerEvent = "pending"
  /\ calls' = CloseBy([calls EXCEPT ![c].callerEvent = "done"],
                      peers[p][a], "caller")
  /\ peers' = [peers EXCEPT ![p][a] = 0]
  /\ lastMedia' = Ran("callerOnClose", p, a)
  /\ UNCHANGED <<mySessionId, userId, myStream, onCalledPeers, presenceEvents,
                 videoEnabled, mediaErrors>>
  /\ UNCHANGED <<serverVars, clientVars, objectVars, processVars, awaitVars,
                 listenerVars>>

\* call.on("close", ...) registered by the "call" handler: the callee of call
\* c observes 'close' and deletes the entry of call.peer
calleeOnClose(c) ==
  LET q == calls[c].callee
      from == myPeer(calls[c].caller)
  IN
  /\ c \in CallIds
  /\ calls[c].calleeEvent = "pending"
  /\ calls' = [calls EXCEPT ![c].calleeEvent = "done"]
  /\ onCalledPeers' = [onCalledPeers EXCEPT ![q][from] = 0]
  /\ lastMedia' = Ran("calleeOnClose", q, from)
  /\ UNCHANGED <<mySessionId, userId, myStream, peers, presenceEvents,
                 videoEnabled, mediaErrors>>
  /\ UNCHANGED <<serverVars, clientVars, objectVars, processVars, awaitVars,
                 listenerVars>>

\* players.onRemove of participant p for roster key id:
\* webRTC.deleteVideoStream(key) and webRTC.deleteOnCalledVideoStream(key)
playersOnRemove(p, id) ==
  LET a == replaceInvalidId(id) IN
  /\ calls' = CloseBy(CloseBy(calls, peers[p][a], "caller"),
                      onCalledPeers[p][a], "callee")
  /\ peers' = [peers EXCEPT ![p][a] = 0]
  /\ onCalledPeers' = [onCalledPeers EXCEPT ![p][a] = 0]
  /\ presenceEvents' = presenceEvents + 1
  /\ lastMedia' = Ran("onRemove", p, a)
  /\ UNCHANGED <<mySessionId, userId, myStream, videoEnabled, mediaErrors>>
  /\ UNCHANGED <<serverVars, clientVars, objectVars, processVars, awaitVars,
                 listenerVars>>

\* (mutant of callerOnError: the handler drops every outbound link)
callerOnErrorDropsAll(c) ==
  LET p == calls[c].caller
      a == calls[c].peer
  IN
  /\ c \in CallIds
  /\ calls[c].state # "closed"
  /\ calls' = CloseBy(calls, peers[p][a], "caller")
  /\ peers' = [peers EXCEPT ![p] = NoLinks]
  /\ mediaErrors' = mediaErrors + 1
  /\ lastMedia' = Ran("callerOnError", p, a)
  /\ UNCHANGED <<mySessionId, userId, myStream, onCalledPeers, presenceEvents,
                 videoEnabled>>
  /\ UNCHANGED <<serverVars, clientVars, objectVars, processVars, awaitVars,
                 listenerVars>>

\* call.on("error", ...) registered by connectToNewUser: the caller of call c
\* observes 'error' and runs deleteVideoStream(sanitizedId)
callerOnError(c) ==
  LET p == calls[c].caller
      a == calls[c].peer
  IN
  /\ c \in CallIds
  /\ calls[c].state # "closed"
  /\ calls' = CloseBy(calls, peers[p][a], "caller")
  /\ peers' = [peers EXCEPT ![p][a] = 0]
  /\ mediaErrors' = mediaErrors + 1
  /\ lastMedia' = Ran("callerOnError", p, a)
  /\ UNCHANGED <<mySessionId, userId, myStream, onCalledPeers, presenceEvents,
                 videoEnabled>>
  /\ UNCHANGED <<serverVars, clientVars, objectVars, processVars, awaitVars,
                 listenerVars>>

\* call.on("error", ...) registered by the "call" handler when it answered:
\* the callee of call c observes 'error' and deletes the entry of call.peer
calleeOnError(c) ==
  LET q == calls[c].callee
      from == myPeer(calls[c].caller)
  IN
  /\ c \in CallIds
  /\ calls[c].state = "answered"
  /\ onCalledPeers' = [onCalledPeers EXCEPT ![q][from] = 0]
  /\ mediaErrors' = mediaErrors + 1
  /\ lastMedia' = Ran("calleeOnError", q, from)
  /\ UNCHANGED <<mySessionId, userId, myStream, peers, calls, presenceEvents,
                 videoEnabled>>
  /\ UNCHANGED <<serverVars, clientVars, objectVars, processVars, awaitVars,
                 listenerVars>>

\* this.myPeer.on("error", ...) and this.myPeer.on("disconnected", ...) of
\* participant p: the handler logs and calls myPeer.reconnect()
myPeerOnError(p) ==
  /\ mediaErrors' = mediaErrors + 1
  /\ lastMedia' = Ran("myPeerOnError", p, NoAddress)
  /\ UNCHANGED <<mySessionId, userId, myStream, peers, onCalledPeers, calls,
                 presenceEvents, videoEnabled>>
  /\ UNCHANGED <<serverVars, clientVars, objectVars, processVars, awaitVars,
                 listenerVars>>

\* click on the video button made by setUpButtons: the enabled flag of the
\* local video track is inverted
videoButtonClick(p) ==
  /\ myStream[p]
  /\ videoEnabled' = [videoEnabled EXCEPT ![p] = ~videoEnabled[p]]
  /\ lastMedia' = Ran("videoButtonClick", p, NoAddress)
  /\ UNCHANGED <<mySessionId, userId, myStream, peers, onCalledPeers, calls,
                 presenceEvents, mediaErrors>>
  /\ UNCHANGED <<serverVars, clientVars, objectVars, processVars, awaitVars,
                 listenerVars>>

(***************************************************************************)
(* Client: outbound commands                                               *)
(***************************************************************************)
\* update-position, update-name, ready-for-media, media-active,
\* attach-to-object, detach-from-object, append-chat
CommandKinds ==
  {"UPDATE_PLAYER", "UPDATE_PLAYER_NAME", "READY_TO_CONNECT", "VIDEO_CONNECTED",
   "CONNECT_TO_COMPUTER", "DISCONNECT_FROM_COMPUTER", "ADD_CHAT_MESSAGE"}

\* updatePlayer, updatePlayerName and readyToConnect start with
\* "if (!this.ready || !this.room || this.connecting || this.disconnecting) return";
\* the other methods use this.room?.send(...)
PassesGuard(kind) ==
  IF kind \in {"UPDATE_PLAYER", "UPDATE_PLAYER_NAME", "READY_TO_CONNECT"}
    THEN ready /\ room # 0 /\ ~connecting /\ ~disconnecting
    ELSE room # 0

NoCommand ==
  [kind |-> "none", sent |-> FALSE, synchronized |-> FALSE, signal |-> "none"]

\* The caller submits a command. sent: the message went out on the open
\* channel of this.room; signal: what the call gave back to the caller (the
\* methods return nothing and throw nothing).
SubmitCommand(kind) ==
  /\ lastCommand' =
       [kind |-> kind,
        sent |-> PassesGuard(kind) /\ conns[room].state = "open",
        synchronized |-> Synchronized,
        signal |-> "none"]
  /\ UNCHANGED <<room, ready, connecting, disconnecting, reconnectTimer,
                 lastRoomType, lastRoomData, conns, tasks, lobbyJoined,
                 callerError, failures, closes, callerJoins>>
  /\ UNCHANGED <<serverVars, objectVars, processVars, mediaVars, awaitVars,
                 listenerVars>>

(***************************************************************************)
(* Specifications                                                          *)
(***************************************************************************)
\* state after onCreate(options)
InitServer ==
  /\ password \in {StoredPassword(o) : o \in CreatePasswords}
  /\ players = <<>>
  /\ chatMessages = <<>>
  /\ clients = {}
  /\ seat = [s \in Sessions |-> "free"]
  /\ joinOptions = [s \in Sessions |-> NoPassword]
  /\ nextSessionId = 1
  /\ lastError = "none"
  /\ now = 1

\* no Network object
InitNoClient ==
  /\ room = 0
  /\ ready = FALSE
  /\ connecting = FALSE
  /\ disconnecting = FALSE
  /\ reconnectTimer = 0
  /\ lastRoomType = Undefined
  /\ lastRoomData = NoData
  /\ conns = [s \in Sessions |-> NoConn]
  /\ tasks = [t \in TaskIds |-> NoTask]
  /\ lobbyJoined = FALSE
  /\ callerError = FALSE
  /\ lastCommand = NoCommand
  /\ failures = 0
  /\ closes = 0
  /\ callerJoins = 0

\* state after new Network(): connectWithRetry() was called and waits in
\* joinOrCreatePublic for the transport handshake
InitNetwork ==
  /\ room = 0
  /\ ready = FALSE
  /\ connecting = FALSE
  /\ disconnecting = FALSE
  /\ reconnectTimer = 0
  /\ lastRoomType = "PUBLIC"
  /\ lastRoomData = NullData
  /\ conns = [s \in Sessions |-> NoConn]
  /\ tasks = [t \in TaskIds |->
                IF t = 1
                  THEN EnterJoin([NoTask EXCEPT !.root = "connectWithRetry",
                                                !.attempt = 1], PublicCall)
                  ELSE NoTask]
  /\ lobbyJoined = FALSE
  /\ callerError = FALSE
  /\ lastCommand = NoCommand
  /\ failures = 0
  /\ closes = 0
  /\ callerJoins = 0

\* state after onCreate of room 1, the only room of the process; its boards
\* drew the identifiers "a", "b", "c"
InitRoomOne ==
  /\ computers = [k \in ComputerKeys |-> {}]
  /\ whiteboards = [k \in WhiteboardKeys |-> {}]
  /\ lastMessage = NoMessage
  /\ handled = 0
  /\ whiteboardRoomIds = {"a", "b", "c"}
  /\ rooms = [r \in RoomIndexes |->
                IF r = 1
                  THEN [state |-> "created",
                        boards |-> [k \in WhiteboardKeys |->
                                      <<"a", "b", "c">>[k + 1]]]
                  ELSE NoRoom]
  /\ collisions = 0

\* state of the authority process before any room was created
InitProcess ==
  /\ computers = <<>>
  /\ whiteboards = <<>>
  /\ lastMessage = NoMessage
  /\ handled = 0
  /\ whiteboardRoomIds = {}
  /\ rooms = [r \in RoomIndexes |-> NoRoom]
  /\ collisions = 0

\* no joinOrCreatePublic call is modelled statement by statement
InitNoAwait ==
  /\ joinPc = "none"
  /\ transport = "up"
  /\ stateSync = "up"
  /\ firestore = "up"
  /\ currentUser = FALSE
  /\ chatSends = 0
  /\ chatSaves = 0

\* no listener was set up and no event was raised
InitNoListeners ==
  /\ sessionId = 0
  /\ setups = <<>>
  /\ seenName = [s \in Sessions |-> ""]
  /\ joinedEvents = [s \in Sessions |-> 0]
  /\ updatedEvents = [s \in Sessions |-> 0]

\* no media manager
InitNoMedia ==
  /\ mySessionId = <<>>
  /\ userId = <<>>
  /\ myStream = <<>>
  /\ peers = <<>>
  /\ onCalledPeers = <<>>
  /\ calls = <<>>
  /\ presenceEvents = 0
  /\ videoEnabled = <<>>
  /\ lastMedia = NoMedia
  /\ mediaErrors = 0

\* state after new WebRTC(userId, network) of every participant: userId is
\* the temporary identifier (Network constructor) or the session identifier
\* (Network.initialize)
InitMedia ==
  /\ mySessionId \in {f \in [MediaPeers -> SessionIds] :
                        \A p, q \in MediaPeers :
                          p < q => SessionRank(f[p]) < SessionRank(f[q])}
  /\ userId \in {f \in [MediaPeers -> SessionIds \cup
                                       {TempIdOf(p) : p \in MediaPeers}] :
                   \A p \in MediaPeers : f[p] \in {mySessionId[p], TempIdOf(p)}}
  /\ myStream = [p \in MediaPeers |-> FALSE]
  /\ peers = [p \in MediaPeers |-> NoLinks]
  /\ onCalledPeers = [p \in MediaPeers |-> NoLinks]
  /\ calls = <<>>
  /\ presenceEvents = 0
  /\ videoEnabled = [p \in MediaPeers |-> FALSE]
  /\ lastMedia = NoMedia
  /\ mediaErrors = 0

\* ---- admission: join attempts and leaves on one room ----
\* (a room without access secret; every join request carries no password)
InitRoom ==
  /\ InitNoAwait
  /\ InitNoListeners
  /\ InitServer
  /\ InitNoClient
  /\ InitRoomOne
  /\ InitNoMedia
  /\ password = NoPassword

ReserveStep ==
  /\ Cardinality(Pending) < MaxPending
  /\ onReserve(NoPassword)

AuthStep == \E s \in Sessions : onAuth(s)

JoinStep == \E s \in Sessions : onJoin(s)

LeaveStep ==
  /\ Cardinality(Closed) < MaxLeaves
  /\ \E s \in Sessions : onLeave(s)

NextRoom == ReserveStep \/ AuthStep \/ JoinStep \/ LeaveStep

SpecRoom == InitRoom /\ [][NextRoom]_vars

\* ---- chat: a room without password, a few participants, many messages ----
InitChat ==
  /\ InitNoAwait
  /\ InitNoListeners
  /\ InitServer
  /\ InitNoClient
  /\ InitRoomOne
  /\ InitNoMedia
  /\ password = NoPassword

\* number of messages stored so far (the clock ticks once per message)
Appended == now - 1

ChatReserveStep ==
  /\ nextSessionId <= ChatSessions
  /\ onReserve(NoPassword)

ChatLeaveStep ==
  /\ Cardinality(Closed) < MaxLeaves
  /\ \E s \in Sessions : onLeave(s)

\* the n-th message carries the content n
ChatStep ==
  /\ Appended < MaxAppends
  /\ \E s \in Sessions : ChatMessageUpdateCommand(s, Appended + 1)

NextChat == ChatReserveStep \/ AuthStep \/ JoinStep \/ ChatLeaveStep \/ ChatStep

SpecChat == InitChat /\ [][NextChat]_vars

\* ---- client: one Network object against a public room without password ----
InitClient ==
  /\ InitNoAwait
  /\ InitNoListeners
  /\ InitServer
  /\ InitNetwork
  /\ InitRoomOne
  /\ InitNoMedia
  /\ password = NoPassword

ClientJoinOk ==
  /\ nextSessionId <= MaxConns
  /\ \E t \in TaskIds : JoinOk(t)

ClientJoinFail ==
  /\ failures + closes + callerJoins < MaxEvents
  /\ \E t \in TaskIds, seatErr \in BOOLEAN : JoinFail(t, seatErr)

ClientInitTimeout ==
  /\ failures + closes + callerJoins < MaxEvents
  /\ \E t \in TaskIds : InitTimeout(t)

ClientStateChange == \E c \in Sessions : StateChange(c)

ClientTimerFire == \E t \in TaskIds : TimerFire(t)

ClientClose ==
  /\ failures + closes + callerJoins < MaxEvents
  /\ \E c \in Sessions, code \in {NormalClose, AbnormalClose} : ConnClose(c, code)

ClientCallerJoin ==
  /\ failures + closes + callerJoins < MaxEvents
  /\ \E call \in CallerCalls : CallerJoin(call)

ClientSubmit == \E kind \in CommandKinds : SubmitCommand(kind)

NextClient ==
  \/ ClientJoinOk \/ ClientJoinFail \/ ClientInitTimeout \/ ClientStateChange
  \/ ClientTimerFire \/ ClientClose \/ ClientCallerJoin

SpecClient == InitClient /\ [][NextClient]_vars

\* ---- commands: the caller submits commands at any time ----
NextCommand ==
  \/ ClientJoinOk \/ ClientStateChange \/ ClientTimerFire \/ ClientClose
  \/ ClientSubmit

SpecCommand == InitClient /\ [][NextCommand]_vars

\* ---- retry: the connection attempts of new Network() keep failing ----
RetryJoinFail ==
  /\ failures < MaxRetryFailures
  /\ \E t \in TaskIds, seatErr \in BOOLEAN : JoinFail(t, seatErr)

RetryInitTimeout ==
  /\ failures < MaxRetryFailures
  /\ \E t \in TaskIds : InitTimeout(t)

NextRetry ==
  \/ ClientJoinOk \/ RetryJoinFail \/ RetryInitTimeout \/ ClientStateChange
  \/ ClientTimerFire

SpecRetry == InitClient /\ [][NextRetry]_vars

\* ---- authentication: join requests on a room with or without secret ----
InitAuth ==
  /\ InitNoAwait
  /\ InitNoListeners
  /\ InitServer
  /\ InitNoClient
  /\ InitRoomOne
  /\ InitNoMedia

AuthReserveStep ==
  /\ nextSessionId <= MaxAuthSessions
  /\ \E pw \in JoinPasswords : onReserve(pw)

NextAuth == AuthReserveStep \/ AuthStep \/ JoinStep \/ LeaveStep

SpecAuth == InitAuth /\ [][NextAuth]_vars

\* ---- commands: the room handles messages of its attached clients ----
InitMessages ==
  /\ InitNoAwait
  /\ InitNoListeners
  /\ InitServer
  /\ InitNoClient
  /\ InitRoomOne
  /\ InitNoMedia
  /\ password = NoPassword

MessageStep ==
  /\ handled < MaxMessages
  /\ \E s \in Sessions, m \in Messages : onMessage(s, m)

NextMessages ==
  ChatReserveStep \/ AuthStep \/ JoinStep \/ ChatLeaveStep \/ MessageStep

SpecMessages == InitMessages /\ [][NextMessages]_vars

\* ---- process: rooms are created and disposed ----
InitRooms ==
  /\ InitNoAwait
  /\ InitNoListeners
  /\ InitServer
  /\ InitNoClient
  /\ InitProcess
  /\ InitNoMedia
  /\ password = NoPassword

\* getRoomId returns on the last of the draws
Returns(reserved, draws) ==
  LET r == getRoomId(reserved, draws)
  IN r.roomId # NoRoomId /\ r.draws = <<>>

\* the boards of a room draw their identifiers one after the other; the
\* generator repeats reserved candidates while the last board draws
CreateStep ==
  \E r \in RoomIndexes :
    /\ rooms[r].state = "none"
    /\ \E c0 \in RoomIdCandidates \ whiteboardRoomIds :
         \E c1 \in RoomIdCandidates \ (whiteboardRoomIds \cup {c0}) :
           \E d2 \in CallDraws :
             /\ Returns(whiteboardRoomIds \cup {c0, c1}, d2)
             /\ onCreate(r, <<c0, c1>> \o d2)

DisposeStep == \E r \in RoomIndexes : onDispose(r)

NextRooms == CreateStep \/ DisposeStep

SpecRooms == InitRooms /\ [][NextRooms]_vars

\* ---- media: the media managers of the participants of one room ----
InitMediaMesh ==
  /\ InitNoAwait
  /\ InitNoListeners
  /\ InitServer
  /\ InitNoClient
  /\ InitRoomOne
  /\ InitMedia
  /\ password = NoPassword

StreamStep == \E p \in MediaPeers : getUserMedia(p)

\* presence-added event at p for participant q: "if local media is active,
\* initiate an outbound media-link request"
PresenceAdded ==
  /\ presenceEvents < MaxPresenceEvents
  /\ Len(calls) < MaxCalls
  /\ \E p, q \in MediaPeers : p # q /\ connectToNewUser(p, mySessionId[q])

PresenceRemoved ==
  /\ presenceEvents < MaxPresenceEvents
  /\ \E p, q \in MediaPeers : p # q /\ playersOnRemove(p, mySessionId[q])

CallStep == \E q \in MediaPeers, c \in CallIds : onCall(q, c)

CallerCloseStep == \E c \in CallIds : callerOnClose(c)

CalleeCloseStep == \E c \in CallIds : calleeOnClose(c)

NextMediaMesh ==
  \/ StreamStep \/ PresenceAdded \/ PresenceRemoved \/ CallStep
  \/ CallerCloseStep \/ CalleeCloseStep

SpecMediaMesh == InitMediaMesh /\ [][NextMediaMesh]_vars

\* ---- media failures: three participants with local media, calls, errors ----
\* a participant and two other participants of its room
TrioPeers == {1, 2, 3}

\* every media manager was constructed with the session identifier of its
\* participant; the local streams exist
InitMediaTrio ==
  /\ mySessionId = [p \in TrioPeers |->
                      CHOOSE id \in SessionIds : SessionRank(id) = p]
  /\ userId = mySessionId
  /\ peers = [p \in TrioPeers |-> NoLinks]
  /\ onCalledPeers = [p \in TrioPeers |-> NoLinks]
  /\ calls = <<>>
  /\ presenceEvents = 0
  /\ lastMedia = NoMedia
  /\ mediaErrors = 0

InitMediaFailure ==
  /\ InitNoAwait
  /\ InitNoListeners
  /\ InitServer
  /\ InitNoClient
  /\ InitRoomOne
  /\ InitMediaTrio
  /\ myStream = [p \in TrioPeers |-> TRUE]
  /\ videoEnabled = [p \in TrioPeers |-> TRUE]
  /\ password = NoPassword

\* presence-added event at participant 1 for one of the two others
TrioPresenceAdded ==
  /\ presenceEvents < MaxPresenceEvents
  /\ Len(calls) < MaxCalls
  /\ \E q \in TrioPeers \ {1} : connectToNewUser(1, mySessionId[q])

\* presence-removed event for participant 1 at one of the two others, or for
\* one of them at participant 1
TrioPresenceRemoved ==
  /\ presenceEvents < MaxPresenceEvents
  /\ \E q \in TrioPeers \ {1} :
       \/ playersOnRemove(q, mySessionId[1])
       \/ playersOnRemove(1, mySessionId[q])

TrioCallStep == \E q \in TrioPeers, c \in CallIds : onCall(q, c)

CallerErrorStep ==
  /\ mediaErrors < MaxMediaErrors
  /\ \E c \in CallIds : callerOnError(c)

CalleeErrorStep ==
  /\ mediaErrors < MaxMediaErrors
  /\ \E c \in CallIds : calleeOnError(c)

PeerErrorStep ==
  /\ mediaErrors < MaxMediaErrors
  /\ \E p \in TrioPeers : myPeerOnError(p)

NextMediaFailure ==
  \/ TrioPresenceAdded \/ TrioPresenceRemoved \/ TrioCallStep
  \/ CallerErrorStep \/ CalleeErrorStep \/ PeerErrorStep
  \/ CallerCloseStep \/ CalleeCloseStep

SpecMediaFailure == InitMediaFailure /\ [][NextMediaFailure]_vars

\* ---- media opt-in: participant 1 toggles its media, two others opted in ----
InitMediaToggle ==
  /\ InitNoAwait
  /\ InitNoListeners
  /\ InitServer
  /\ InitNoClient
  /\ InitRoomOne
  /\ InitMediaTrio
  /\ myStream = [p \in TrioPeers |-> p # 1]
  /\ videoEnabled = [p \in TrioPeers |-> p # 1]
  /\ password = NoPassword

\* participant 1 opts in: VideoConnectionDialog calls webRTC.getUserMedia()
ToggleOnStep == getUserMedia(1)

\* participant 1 clicks the video button
ToggleClickStep == videoButtonClick(1)

NextMediaToggle ==
  \/ ToggleOnStep \/ ToggleClickStep
  \/ TrioPresenceAdded \/ TrioPresenceRemoved \/ TrioCallStep
  \/ CallerCloseStep \/ CalleeCloseStep

SpecMediaToggle == InitMediaToggle /\ [][NextMediaToggle]_vars

\* ---- chat log and display names: appends and update-name messages ----
\* update-name message of a client
ChatNameStep ==
  /\ handled < MaxMessages
  /\ \E s \in Sessions :
       onMessage(s, [Message("UPDATE_PLAYER_NAME") EXCEPT !.name = "ann"])

\* one client, the author of every entry, joins the room
AuthorReserveStep ==
  /\ nextSessionId = 1
  /\ onReserve(NoPassword)

NextChatNames ==
  \/ AuthorReserveStep \/ AuthStep \/ JoinStep \/ ChatLeaveStep
  \/ ChatStep \/ ChatNameStep

SpecChatNames == InitChat /\ [][NextChatNames]_vars

\* ---- awaits: one joinOrCreatePublic call and the services it awaits ----
InitAwaits ==
  /\ InitServer
  /\ InitNoClient
  /\ InitRoomOne
  /\ InitNoMedia
  /\ password = NoPassword
  /\ joinPc = "idle"
  /\ transport \in {Up, Silent}
  /\ stateSync \in {Up, Silent}
  /\ firestore \in {Up, Failing, Silent}
  /\ currentUser \in BOOLEAN
  /\ chatSends = 0
  /\ chatSaves = 0
  /\ InitNoListeners

ChatSendStep ==
  /\ chatSends < MaxChatSends
  /\ room # 0
  /\ addChatMessage

NextAwaits ==
  \/ joinOrCreatePublic \/ joinOrCreateResolves \/ startRoomSession
  \/ loadChatHistory \/ initializeResolves \/ initializeTimesOut
  \/ ChatSendStep \/ saveChatToFirestore

\* every statement of the client that can run does run, a timer that is
\* armed fires, and a service that answers does answer
SpecAwaits ==
  /\ InitAwaits /\ [][NextAwaits]_vars
  /\ WF_vars(joinOrCreatePublic) /\ WF_vars(joinOrCreateResolves)
  /\ WF_vars(startRoomSession) /\ WF_vars(loadChatHistory)
  /\ WF_vars(initializeResolves) /\ WF_vars(initializeTimesOut)
  /\ WF_vars(saveChatToFirestore)

\* ---- presence: participants set their names, one client observes ----
\* names the participants send in UPDATE_PLAYER_NAME
PlayerNames == {"ann", "bob"}

NameStep ==
  /\ handled < MaxMessages
  /\ \E s \in Sessions, n \in PlayerNames :
       onMessage(s, [Message("UPDATE_PLAYER_NAME") EXCEPT !.name = n])

NameListenerStep == \E s \in Sessions : playerNameListener(s)

NextPresence ==
  \/ ChatReserveStep \/ AuthStep \/ JoinStep \/ ChatLeaveStep
  \/ NameStep \/ NameListenerStep

SpecPresence == InitChat /\ [][NextPresence]_vars

\* ---- reconnect timer: room errors and closes of the joined rooms ----
RoomErrorStep ==
  /\ failures + closes + callerJoins < MaxEvents
  /\ \E c \in Sessions, seatErr \in BOOLEAN : RoomError(c, seatErr)

NextReconnect ==
  \/ ClientJoinOk \/ ClientStateChange \/ ClientTimerFire \/ ClientClose
  \/ RoomErrorStep

SpecReconnect == InitClient /\ [][NextReconnect]_vars

Spec == SpecRoom

(***************************************************************************)
(* Properties                                                              *)
(***************************************************************************)
Min(a, b) == IF a <= b THEN a ELSE b

\* C1: in every reachable room state the chat log holds at most 100
\* entries, whatever append-chat commands the admitted participants sent.
C1_ChatLogBounded == Len(chatMessages) <= MaxChatMessages

\* the log is full and at least one entry was evicted
C1_Witness ==
  /\ Len(chatMessages) = MaxChatMessages
  /\ Appended > MaxChatMessages

\* C2: the log is always the last min(n, 100) of the n entries appended so
\* far, in the order they were appended: an append at 100 entries evicts
\* exactly the oldest one, an append below 100 evicts nothing.
C2_FifoEviction ==
  /\ Len(chatMessages) = Min(Appended, MaxChatMessages)
  /\ \A i \in 1..Len(chatMessages) :
       chatMessages[i].content = Appended - Len(chatMessages) + i

\* after entries 1..101 the log is entries 2..101
C2_Witness ==
  /\ Appended = MaxChatMessages + 1
  /\ Len(chatMessages) = MaxChatMessages
  /\ chatMessages[1].content = 2
  /\ chatMessages[MaxChatMessages].content = MaxChatMessages + 1

\* C3: the roster never holds more than maxClients = 16 participants, under
\* any interleaving of join attempts (also ones still in progress) and
\* leaves.
C3_RosterWithinCapacity == Cardinality(DOMAIN players) <= maxClients

\* C4: a session identifier is a key of players if and only if its
\* connection is currently admitted (attached, and onJoin has run).
C4_RosterIffAdmitted ==
  DOMAIN players = {s \in clients : seat[s] = "joined"}

\* one connection is admitted and has its Participant, another one was
\* closed and has none
C4_Witness ==
  \E s, u \in Sessions :
    /\ seat[s] = "closed" /\ s \notin DOMAIN players
    /\ seat[u] = "joined" /\ u \in DOMAIN players

\* C5: after an abnormal close in Synchronized and a completed re-admission,
\* the roster never holds two Participants of the client.
C5_NoDuplicateParticipant ==
  (\E c \in Sessions : conns[c].state = "open" /\ conns[c].lost # "none")
    => Cardinality(DOMAIN players) <= 1

\* C6: the two reconnection attempts started for one abnormal close (the
\* timer of scheduleReconnect and attemptReconnection) never both end in an
\* admission.
C6_SingleReconnectAdmission ==
  \A c, d \in Sessions :
    (/\ conns[c].state # "none" /\ conns[d].state # "none"
     /\ conns[c].cause # 0 /\ conns[c].cause = conns[d].cause)
      => conns[c].via = conns[d].via

\* C7: a command of any of the seven kinds goes out to the room only while
\* the client is Synchronized.
C7_SendOnlyWhenSynchronized == lastCommand.sent => lastCommand.synchronized

\* C8: a command submitted while the client is not Synchronized is not sent
\* and the caller gets a failure signal at once.
C8_RejectedWithSignal ==
  (lastCommand.kind # "none" /\ ~lastCommand.synchronized)
    => (~lastCommand.sent /\ lastCommand.signal = "failure")

\* C9: a reconnection started by an abnormal close of the room the client
\* was Synchronized in targets that same room.
C9_ReconnectsLastTarget ==
  \A t \in TaskIds :
    (tasks[t].pc \in {"join", "init"} /\ tasks[t].lost # "none")
      => RoomKey(tasks[t].call) = tasks[t].lost

\* C10: one retry cycle never makes more than maxRetries = 10 connection
\* attempts, on any retry path.
C10_AttemptsBounded == \A t \in TaskIds : tasks[t].attempts <= maxRetries

\* C12: a room with an access secret admits no client whose join options
\* carry no password or a password that does not match the stored hash: every
\* attached client and every Participant belongs to a request whose password
\* matches, so the check is made before onJoin creates the Participant.
C12_SecretRequired ==
  password # NoPassword =>
    \A s \in Sessions :
      (s \in clients \/ s \in DOMAIN players \/ seat[s] \in {"auth", "joined"})
        => /\ joinOptions[s] \notin {NoPassword, ""}
           /\ Compare(joinOptions[s], password)

C12_Witness ==
  /\ password # NoPassword
  /\ \E s \in Sessions : seat[s] = "rejected" /\ joinOptions[s] = NoPassword
  /\ \E s \in Sessions : seat[s] = "rejected" /\ joinOptions[s] = "wrong"
  /\ \E s \in DOMAIN players : joinOptions[s] = "secret"

\* C13: a message of client c changes no field of another Participant and
\* no other client's membership in the attached set of a shared object.
C13_OwnFieldsOnly ==
  [][handled' = handled + 1 =>
       LET c == lastMessage'.client IN
       /\ \A s \in DOMAIN players : s # c => players'[s] = players[s]
       /\ \A k \in ComputerKeys : computers'[k] \ {c} = computers[k] \ {c}
       /\ \A k \in WhiteboardKeys : whiteboards'[k] \ {c} = whiteboards[k] \ {c}
    ]_vars

\* the seven Commands: update-position, update-name, ready-for-media,
\* media-active, attach-to-object, detach-from-object, append-chat
SevenCommands ==
  {"UPDATE_PLAYER", "UPDATE_PLAYER_NAME", "READY_TO_CONNECT", "VIDEO_CONNECTED",
   "CONNECT_TO_COMPUTER", "CONNECT_TO_WHITEBOARD", "DISCONNECT_FROM_COMPUTER",
   "DISCONNECT_FROM_WHITEBOARD", "ADD_CHAT_MESSAGE"}

\* C14: a Command of a session that has no Participant in the roster leaves
\* the players, every attached set and the chat log as they were.
C14_AbsentParticipantNoOp ==
  [][(/\ handled' = handled + 1
      /\ lastMessage'.message.kind \in SevenCommands
      /\ lastMessage'.client \notin DOMAIN players)
       => /\ players' = players
          /\ computers' = computers
          /\ whiteboards' = whiteboards
          /\ chatMessages' = chatMessages
    ]_vars

\* C15: an attach command repeated right after itself leaves every attached
\* set as the first execution left it, and an attach command changes the
\* attached set of no object other than the one it names.
C15_AttachIdempotent ==
  [][handled' = handled + 1 =>
       LET m == lastMessage'.message IN
       /\ (m.kind \in {"CONNECT_TO_COMPUTER", "CONNECT_TO_WHITEBOARD"}
           /\ lastMessage'.repeat)
            => computers' = computers /\ whiteboards' = whiteboards
       /\ m.kind = "CONNECT_TO_COMPUTER"
            => /\ whiteboards' = whiteboards
               /\ \A k \in ComputerKeys :
                    k # m.computerId => computers'[k] = computers[k]
       /\ m.kind = "CONNECT_TO_WHITEBOARD"
            => /\ computers' = computers
               /\ \A k \in WhiteboardKeys :
                    k # m.whiteboardId => whiteboards'[k] = whiteboards[k]
    ]_vars

C15_Witness ==
  /\ lastMessage.repeat
  /\ \/ /\ lastMessage.message.kind = "CONNECT_TO_COMPUTER"
        /\ lastMessage.message.computerId \in ComputerKeys
        /\ lastMessage.client \in computers[lastMessage.message.computerId]
     \/ /\ lastMessage.message.kind = "CONNECT_TO_WHITEBOARD"
        /\ lastMessage.message.whiteboardId \in WhiteboardKeys
        /\ lastMessage.client \in whiteboards[lastMessage.message.whiteboardId]

\* C16: a detach command of a client that is not in the attached set of the
\* object it names leaves the whole room state unchanged; a detach command of
\* a member removes that client from that set and changes nothing else.
C16_DetachExact ==
  [][handled' = handled + 1 =>
       LET m == lastMessage'.message
           c == lastMessage'.client
       IN
       /\ m.kind = "DISCONNECT_FROM_COMPUTER"
            => /\ players' = players
               /\ whiteboards' = whiteboards
               /\ chatMessages' = chatMessages
               /\ \A k \in ComputerKeys :
                    computers'[k] =
                      IF k = m.computerId THEN computers[k] \ {c}
                      ELSE computers[k]
       /\ m.kind = "DISCONNECT_FROM_WHITEBOARD"
            => /\ players' = players
               /\ computers' = computers
               /\ chatMessages' = chatMessages
               /\ \A k \in WhiteboardKeys :
                    whiteboards'[k] =
                      IF k = m.whiteboardId THEN whiteboards[k] \ {c}
                      ELSE whiteboards[k]
    ]_vars

C16_Witness ==
  /\ lastMessage.message.kind = "DISCONNECT_FROM_COMPUTER"
  /\ lastMessage.message.computerId \in ComputerKeys
  /\ lastMessage.client \notin computers[lastMessage.message.computerId]
  /\ computers[lastMessage.message.computerId] # {}

\* the boards of the rooms that were created and not disposed
LiveBoards ==
  {b \in RoomIndexes \X WhiteboardKeys : rooms[b[1]].state = "created"}

\* C17: the identifiers of the live boards of the process are pairwise
\* distinct, also when the generator repeated a reserved candidate.
C17_BoardIdsDistinct ==
  \A b1, b2 \in LiveBoards :
    b1 # b2 => rooms[b1[1]].boards[b1[2]] # rooms[b2[1]].boards[b2[2]]

C17_Witness ==
  /\ collisions > 0
  /\ Cardinality({r \in RoomIndexes : rooms[r].state = "created"}) >= 2

\* C18: after onDispose of a room none of the identifiers of its boards is
\* in the process-wide set of reserved identifiers.
C18_ReleasedOnDispose ==
  \A r \in RoomIndexes :
    rooms[r].state = "disposed" =>
      \A k \in WhiteboardKeys : rooms[r].boards[k] \notin whiteboardRoomIds

\* the open media links participant p holds with participant q: the entry
\* of peers under the address of q's session and the entry of onCalledPeers
\* under the address q registered
LinksWith(p, q) ==
  {c \in CallIds :
     /\ calls[c].state # "closed"
     /\ \/ /\ calls[c].caller = p
           /\ calls[c].peer = replaceInvalidId(mySessionId[q])
           /\ peers[p][calls[c].peer] = c
        \/ /\ calls[c].caller = q
           /\ calls[c].callee = p
           /\ onCalledPeers[p][myPeer(q)] = c}

\* C19: a participant holds at most one media link with each other
\* participant, outbound and inbound links counted together.
C19_OneLinkPerPeer ==
  \A p, q \in MediaPeers : p # q => Cardinality(LinksWith(p, q)) <= 1

\* C20: a call that arrives is answered, and entered in onCalledPeers, only
\* if the callee has a local stream at that moment; otherwise it is closed
\* and the callee's onCalledPeers stays as it was.
C20_AnswerOnlyWithStream ==
  [][\A c \in CallIds :
       (calls[c].callee = 0 /\ calls'[c].callee # 0) =>
         LET q == calls'[c].callee
             from == myPeer(calls[c].caller)
         IN IF myStream[q]
              THEN /\ calls'[c].state = "answered"
                   /\ onCalledPeers'[q][from] = c
              ELSE /\ calls'[c].state = "closed"
                   /\ onCalledPeers'[q] = onCalledPeers[q]
    ]_vars

C20_Witness ==
  /\ \E c \in CallIds : calls[c].rejected /\ onCalledPeers[calls[c].callee] = NoLinks
  /\ \E c \in CallIds : calls[c].state = "answered"

\* C21: connectToNewUser makes a call only when the local stream exists; run
\* without a local stream it makes no call and leaves peers as it was.
C21_CallOnlyWithStream ==
  [][/\ (presenceEvents' = presenceEvents + 1
         /\ lastMedia'.op = "connectToNewUser"
         /\ ~myStream[lastMedia'.p])
          => calls' = calls /\ peers' = peers
     /\ Len(calls') > Len(calls) => myStream[calls'[Len(calls')].caller]
    ]_vars

C21_Witness ==
  /\ lastMedia.op = "connectToNewUser"
  /\ ~myStream[lastMedia.p]
  /\ peers[lastMedia.p] = NoLinks
  /\ \E c \in CallIds : calls[c].caller # lastMedia.p

\* the participants whose roster key has the address a
KeyedBy(a) == {q \in MediaPeers : replaceInvalidId(mySessionId[q]) = a}

C22_RemovedPeerUnlinkedSessionIds ==
  [][\A p \in MediaPeers :
       (/\ presenceEvents' = presenceEvents + 1
        /\ lastMedia'.op = "onRemove" /\ lastMedia'.p = p)
         => \A q \in KeyedBy(lastMedia'.a) \ {p} :
              userId[q] = mySessionId[q] =>
                /\ LinksWith(p, q)' = {}
                /\ \A c \in LinksWith(p, q) : calls'[c].state = "closed"
    ]_vars

\* C24: caller and callee agree on the address: every call a participant
\* makes for the roster key of participant q goes to the address q registered
\* with the media layer, the sanitization of q's session identifier.
C24_AddressIsSanitizedSessionId ==
  \A c \in CallIds :
    \A q \in KeyedBy(calls[c].peer) \ {calls[c].caller} :
      myPeer(q) = calls[c].peer

\* C25: a link error for a peer is retried: after the first 'error' of a
\* call to a peer the caller still holds a link attempt to that peer.
C25_ErrorRetried ==
  [][(/\ mediaErrors = 0 /\ mediaErrors' = 1
      /\ lastMedia'.op = "callerOnError")
       => \A p \in TrioPeers :
            lastMedia'.p = p => peers'[p][lastMedia'.a] # 0
    ]_vars

\* C26: a call error or close, or an error of the media layer, observed by
\* participant p for address a changes no entry of the link tables of p other
\* than the entries of a, no link table of another participant, and nothing
\* of the room connection of the client.
C26_FailureIsLocal ==
  [][lastMedia'.op \in {"callerOnError", "calleeOnError", "myPeerOnError",
                        "callerOnClose", "calleeOnClose"}
       => /\ \A p \in TrioPeers, a \in Addresses :
               (p # lastMedia'.p \/ a # lastMedia'.a)
                 => /\ peers'[p][a] = peers[p][a]
                    /\ onCalledPeers'[p][a] = onCalledPeers[p][a]
          /\ UNCHANGED <<room, ready, connecting, disconnecting, conns>>
          /\ UNCHANGED <<myStream, videoEnabled>>
    ]_vars

C26_Witness ==
  /\ lastMedia.op = "callerOnError"
  /\ \E p \in TrioPeers :
       /\ lastMedia.p = p
       /\ peers[p][lastMedia.a] = 0
       /\ \E a \in Addresses :
            /\ a # lastMedia.a
            /\ peers[p][a] # 0
            /\ calls[peers[p][a]].state = "answered"

\* the calls of the outbound links of participant p that a callee answered
AnsweredLinks(p) ==
  {c \in CallIds :
     /\ calls[c].caller = p /\ calls[c].state = "answered"
     /\ peers[p][calls[c].peer] = c}

\* C23: with two other opted-in participants, participant 1 holds two media
\* links after opting in, and turning its video off closes those two links.
C23_ToggleOffClosesLinks ==
  [][(/\ lastMedia'.op = "videoButtonClick"
      /\ videoEnabled[1] /\ ~videoEnabled'[1]
      /\ Cardinality(AnsweredLinks(1)) = 2)
       => /\ peers'[1] = NoLinks
          /\ \A c \in AnsweredLinks(1) : calls'[c].state = "closed"
    ]_vars

\* C27: the room has the 5 computers with keys 0..4 and the 3 whiteboards
\* with keys 0..2 that onCreate made, and each whiteboard keeps the
\* identifier it drew at creation, whatever joins, leaves and messages the
\* room handled.
C27_ObjectsFixed ==
  /\ DOMAIN computers = 0..4
  /\ DOMAIN whiteboards = 0..2
  /\ rooms[1].state = "created"
  /\ \A k \in WhiteboardKeys : rooms[1].boards[k] = <<"a", "b", "c">>[k + 1]

C27_Witness ==
  /\ lastMessage.message.kind = "CONNECT_TO_WHITEBOARD"
  /\ lastMessage.message.whiteboardId \notin WhiteboardKeys
  /\ lastMessage.client \in DOMAIN players
  /\ Closed # {}

\* C28: no step changes an entry of the chat log: the log stays as it is,
\* or gets one entry at its end, or, when it is full, loses its oldest entry
\* and gets one at its end.
C28_EntriesImmutable ==
  [][\/ chatMessages' = chatMessages
     \/ /\ Len(chatMessages') = Len(chatMessages) + 1
        /\ SubSeq(chatMessages', 1, Len(chatMessages)) = chatMessages
     \/ /\ Len(chatMessages) = MaxChatMessages
        /\ Len(chatMessages') = MaxChatMessages
        /\ SubSeq(chatMessages', 1, MaxChatMessages - 1) = Tail(chatMessages)
    ]_vars

\* the only client of the room appended more entries than the log holds and
\* then changed its name
C28_Witness ==
  /\ nextSessionId = 2
  /\ 1 \in DOMAIN players /\ players[1].name = "ann"
  /\ Len(chatMessages) = MaxChatMessages
  /\ chatMessages[1].content > 1
  /\ \A i \in DOMAIN chatMessages : chatMessages[i].author = ""

\* C29: with a room transport that answers and a room state that arrives, a
\* joinOrCreatePublic call whose handshake succeeded reaches ready, whether
\* the persistence service answers, fails or never answers.
C29_ReadyWithoutPersistence ==
  (joinPc = "startRoomSession" /\ stateSync = Up) ~> ready

\* the same when the persistence service answers or fails
C29_ReadyWhenPersistenceFails ==
  (joinPc = "startRoomSession" /\ stateSync = Up /\ firestore # Silent) ~> ready

\* C30: every wait of the client ends: the wait for the transport handshake
\* and the wait of initialize for the first room state.
C30_WaitsEnd ==
  /\ (joinPc = "joinOrCreate") ~> (joinPc # "joinOrCreate")
  /\ (joinPc = "initialize") ~> (joinPc # "initialize" /\ ~connecting)

\* the wait of initialize alone
C30_InitializeEnds ==
  (joinPc = "initialize") ~> (joinPc # "initialize" /\ ~connecting)

\* an attach or detach message that names an object the room does not have
UnknownObject(m) ==
  \/ /\ m.kind \in {"CONNECT_TO_COMPUTER", "DISCONNECT_FROM_COMPUTER"}
     /\ m.computerId \notin ComputerKeys
  \/ /\ m.kind \in {"CONNECT_TO_WHITEBOARD", "DISCONNECT_FROM_WHITEBOARD"}
     /\ m.whiteboardId \notin WhiteboardKeys

\* C31: an attach or detach message that names an object identifier that
\* does not exist leaves the room state and the attached connections as they
\* were, and the room then still handles a message of every attached client.
C31_UnknownObjectIgnored ==
  /\ [][(handled' = handled + 1 /\ UnknownObject(lastMessage'.message))
          => /\ players' = players
             /\ computers' = computers
             /\ whiteboards' = whiteboards
             /\ chatMessages' = chatMessages
             /\ clients' = clients
             /\ seat' = seat
       ]_vars
  /\ [](UnknownObject(lastMessage.message)
          => \A s \in clients :
               ENABLED onMessage(s, [Message("CONNECT_TO_COMPUTER")
                                       EXCEPT !.computerId = 0]))

\* a member of a whiteboard's attached set sent a detach message naming a
\* whiteboard that does not exist, and is still a member and still attached
C31_Witness ==
  /\ lastMessage.message.kind = "DISCONNECT_FROM_WHITEBOARD"
  /\ lastMessage.message.whiteboardId \notin WhiteboardKeys
  /\ lastMessage.client \in clients
  /\ lastMessage.client \in whiteboards[0]

\* C32: the session identifier of a client that left is in the attached set
\* of no computer and of no whiteboard.
C32_AttachedAreParticipants ==
  \A s \in Closed :
    /\ \A k \in ComputerKeys : s \notin computers[k]
    /\ \A k \in WhiteboardKeys : s \notin whiteboards[k]

\* the connections of this client that the authority holds as admitted
AdmittedConns == {c \in Sessions : conns[c].state = "open" /\ c \in clients}

\* C33: the client holds at most one admitted room connection at a time,
\* also when initialize failed and the join method retried the join.
C33_OneAdmittedConnection == Cardinality(AdmittedConns) <= 1

\* C34: ready holds only while the Room in this.room is open, initialize set
\* up its handlers and its onStateChange.once callback has run; and ready
\* implies not connecting.
C34_ReadyMeansCurrentRoomSynced ==
  ready =>
    /\ ~connecting
    /\ room # 0
    /\ conns[room].state = "open"
    /\ conns[room].hB
    /\ ~conns[room].once

\* the second half alone
C34_ReadyImpliesNotConnecting == ready => ~connecting

\* C35: a 'close' event of a call whose table entry was replaced by a newer
\* call to or from the same address leaves the newer call in the table and
\* leaves it open, on the caller's side (peers) and on the callee's side
\* (onCalledPeers).
C35_LateCloseSparesNewLink ==
  [][\A c \in CallIds :
       /\ (calls[c].callerEvent = "pending" /\ calls'[c].callerEvent = "done")
            => LET p == calls[c].caller
                   a == calls[c].peer
                   d == peers[p][a]
               IN (d # 0 /\ d # c)
                    => peers'[p][a] = d /\ calls'[d].state = calls[d].state
       /\ (calls[c].calleeEvent = "pending" /\ calls'[c].calleeEvent = "done")
            => LET q == calls[c].callee
                   from == myPeer(calls[c].caller)
                   d == onCalledPeers[q][from]
               IN (d # 0 /\ d # c)
                    => /\ onCalledPeers'[q][from] = d
                       /\ calls'[d].state = calls[d].state
    ]_vars

\* handlePlayerAdd calls made for roster key k on the state of Room r: every
\* run of setupStateListeners on that Room makes one, in its forEach for a
\* participant present at the run and in its onAdd callback for one added
\* later, unless k is the session id the run takes for its own
HandlePlayerAddCalls(r, k) ==
  Cardinality({i \in DOMAIN setups : setups[i].room = r /\ setups[i].me # k})

\* C36: for the Room the client is Synchronized in, handlePlayerAdd is called
\* at most once for every other participant of the roster and never for the
\* client's own session id.
C36_ListenersOncePerParticipant ==
  (Synchronized /\ room # 0) =>
    \A k \in DOMAIN players :
      HandlePlayerAddCalls(room, k) <= (IF k = room THEN 0 ELSE 1)

\* C37: the observing client raises PLAYER_JOINED at most once for a
\* participant of the roster; a later change of the name raises
\* PLAYER_UPDATED only.
C37_JoinedOncePerAdmission == \A s \in Sessions : joinedEvents[s] <= 1

\* C38: setLobbyJoined(true) is dispatched only after a handshake of the
\* client succeeded: joinOrCreatePublic does not return normally to
\* connectWithRetry while no room was joined.
C38_JoinedBeforeLobbyJoined ==
  lobbyJoined => \E c \in Sessions : conns[c].state # "none"

\* C39: a close of a room channel with a code not greater than 1000 starts
\* no reconnection (no timer is armed, no join is started) and leaves ready
\* false.
C39_GracefulCloseNoReconnect ==
  [][\A c \in Sessions :
       ConnClose(c, NormalClose)
         => /\ tasks' = tasks
            /\ reconnectTimer' = reconnectTimer
            /\ ~ready'
    ]_vars

\* the first half alone: no timer is armed and no join is started
C39_GracefulCloseStartsNothing ==
  [][\A c \in Sessions :
       ConnClose(c, NormalClose)
         => tasks' = tasks /\ reconnectTimer' = reconnectTimer
    ]_vars

\* the timers armed by scheduleReconnect that have not fired
ReconnectTimers ==
  {t \in TaskIds : /\ tasks[t].pc = "timer"
                   /\ tasks[t].root = "connectWithRetry"
                   /\ tasks[t].via = "scheduleReconnect"}

\* C40: at most one timer of scheduleReconnect is pending, and it is the one
\* this.reconnectTimer holds, whatever room errors and abnormal closes
\* happened before it fired.
C40_OneReconnectTimer ==
  /\ Cardinality(ReconnectTimers) <= 1
  /\ \A t \in ReconnectTimers : reconnectTimer = t

\* the timer armed for the abnormal close of Room 1 was replaced, before it
\* fired, by the timer armed for the Room of the reconnection
C40_Witness ==
  /\ reconnectTimer # 0
  /\ tasks[reconnectTimer].pc = "timer"
  /\ tasks[reconnectTimer].cause = 2
  /\ conns[1].state = "closed" /\ conns[1].hA
  /\ conns[2].cause = 1 /\ conns[2].via = "attemptReconnection"
  /\ \A t \in TaskIds : ~(tasks[t].cause = 1 /\ tasks[t].via = "scheduleReconnect")
  /\ \A c \in Sessions : ~(conns[c].cause = 1 /\ conns[c].via = "scheduleReconnect")

====
